---- MODULE Spec2Model ----
(***************************************************************************)
(* A model of the diff engine of cfn-changeset-viewer (src/lib/diff.mjs,   *)
(* the getObjectDiff variant): buildDiff compares two JSON values and      *)
(* returns a Diff tree, getDiffLines renders the tree as text lines.       *)
(*                                                                         *)
(* JSON values are tagged records.  An object is the sequence of its       *)
(* <<key, value>> pairs in the order JavaScript enumerates own properties  *)
(* (integer-like keys first, ascending; then string keys in insertion      *)
(* order).  Rendered lines are TLA+ strings, built as the code builds      *)
(* them.                                                                   *)
(***************************************************************************)
EXTENDS Integers, Sequences, FiniteSets, TLC

VARIABLES before, after, diff, options, changeNotes, lines, pc, loop, fetch

vars == <<before, after, diff, options, changeNotes, lines, pc, loop, fetch>>

(***************************************************************************)
(* Bounds of the model.                                                    *)
(***************************************************************************)
\* longest array of primitives that is enumerated
MaxLen == 4
\* longest array of containers that is enumerated
MaxNest == 2

(***************************************************************************)
(* JSON values.                                                            *)
(***************************************************************************)
Undefined == [t |-> "undefined"]
Null == [t |-> "null"]
Str(s) == [t |-> "string", s |-> s]
Num(n) == [t |-> "number", n |-> n]
Bool(b) == [t |-> "boolean", b |-> b]
Arr(items) == [t |-> "array", items |-> items]
Obj(props) == [t |-> "object", props |-> props]
\* a built-in function, which is what a property inherited from
\* Object.prototype holds
Fn(name) == [t |-> "function", name |-> name]

\* JavaScript's own-property order: a key that is a canonical array index is
\* enumerated before every other key, in ascending numeric order.
IsIndexKey(k) == \E n \in 0..9 : ToString(n) = k
KeyNum(k) == CHOOSE n \in 0..9 : ToString(n) = k

HasKey(props, k) == \E i \in 1..Len(props) : props[i][1] = k

\* the value of an own property, undefined when there is none
GetProp(props, k) ==
  IF HasKey(props, k)
  THEN props[CHOOSE i \in 1..Len(props) : props[i][1] = k][2]
  ELSE Undefined

\* obj[key] = val on a plain object
SetProp(props, k, val) ==
  IF HasKey(props, k)
  THEN [i \in 1..Len(props) |-> IF props[i][1] = k THEN <<k, val>> ELSE props[i]]
  ELSE IF IsIndexKey(k)
  THEN LET pos == Cardinality({i \in 1..Len(props) :
                     IsIndexKey(props[i][1]) /\ KeyNum(props[i][1]) < KeyNum(k)})
       IN  SubSeq(props, 1, pos) \o << <<k, val>> >> \o SubSeq(props, pos + 1, Len(props))
  ELSE Append(props, <<k, val>>)

\* Object.keys(obj)
ObjectKeys(props) == [i \in 1..Len(props) |-> props[i][1]]

\* Object.entries(value): the own enumerable properties, none for a function
OwnEntries(value) == IF value.t = "object" THEN value.props ELSE <<>>

\* the properties every object inherits from Object.prototype (those of them
\* that the keys of the model can name), and the own properties of a function
\* that are not enumerable
InheritedKeys == {"constructor", "toString", "valueOf", "hasOwnProperty"}
FunctionKeys == {"length", "name", "prototype"}

\* key in obj: an own property or an inherited one
In(obj, k) ==
  \/ HasKey(OwnEntries(obj), k)
  \/ k \in InheritedKeys
  \/ obj.t = "function" /\ k \in FunctionKeys

\* obj[key]: the own property, else the inherited one, else undefined
PropertyOf(obj, k) ==
  IF HasKey(OwnEntries(obj), k) THEN GetProp(OwnEntries(obj), k)
  ELSE IF k \in InheritedKeys
  THEN Fn(IF k # "constructor" THEN k
          ELSE IF obj.t = "function" THEN "Function" ELSE "Object")
  ELSE IF obj.t = "function" /\ k \in FunctionKeys
  THEN (CASE k = "length" -> Num(1)
          [] k = "name" -> Str(obj.name)
          [] k = "prototype" -> Obj(<<>>))
  ELSE Undefined

\* `${value}` of a built-in function
FunctionText(f) == "function " \o f.name \o "() { [native code] }"

\* array[index] with a 1-based index: undefined past the end
At(arr, i) == IF i >= 1 /\ i <= Len(arr) THEN arr[i] ELSE Undefined

Spaces(n) == SubSeq("                                        ", 1, n)

RECURSIVE JoinStrings(_, _)
JoinStrings(strs, sep) ==
  IF Len(strs) = 0 THEN ""
  ELSE IF Len(strs) = 1 THEN strs[1]
  ELSE strs[1] \o sep \o JoinStrings(Tail(strs), sep)

\* JSON.stringify(value); the JavaScript value undefined, which stringify
\* returns for undefined, is the string "undefined" (no JSON text is that
\* string: JSON strings carry quotes)
RECURSIVE Stringify(_)
Stringify(v) ==
  CASE v.t = "undefined" -> "undefined"
    [] v.t = "function" -> "undefined"
    [] v.t = "null" -> "null"
    [] v.t = "string" -> "\"" \o v.s \o "\""
    [] v.t = "number" -> ToString(v.n)
    [] v.t = "boolean" -> IF v.b THEN "true" ELSE "false"
    [] v.t = "array" ->
         "[" \o JoinStrings([i \in 1..Len(v.items) |->
                              IF v.items[i].t = "undefined" THEN "null"
                              ELSE Stringify(v.items[i])], ",") \o "]"
    [] v.t = "object" ->
         LET kept == SelectSeq(v.props, LAMBDA p : p[2].t # "undefined")
         IN  "{" \o JoinStrings([i \in 1..Len(kept) |->
                      "\"" \o kept[i][1] \o "\":" \o Stringify(kept[i][2])], ",") \o "}"

\* mutant: a function is classified by typeof, as a type of its own
getValueTypeByTypeof(value) ==
  IF value.t \in {"undefined", "null", "string", "number", "boolean"} THEN "primitive"
  ELSE IF value.t = "array" THEN "array"
  ELSE IF value.t = "function" THEN "function"
  ELSE "object"

getValueType(value) ==
  IF value.t \in {"undefined", "null", "string", "number", "boolean"} THEN "primitive"
  ELSE IF value.t = "array" THEN "array"
  ELSE "object"

(***************************************************************************)
(* The Diff tree.                                                          *)
(***************************************************************************)
Change(action, node) == [action |-> action, node |-> node]
Replace(beforeNode, afterNode) ==
  [action |-> "Replace", beforeNode |-> beforeNode, afterNode |-> afterNode]
PrimitiveNode(value) == [type |-> "primitive", value |-> value]
ObjectNode(properties) == [type |-> "object", properties |-> properties]
ArrayNode(items) == [type |-> "array", items |-> items]
\* throw new Error(message): what a call leaves where it would have returned a
\* node
Thrown(message) == [type |-> "thrown", message |-> message]

\* mutant: the override is not handed down to the children
OrDefaultDropped(actionOverride) == "Default"

\* the action a node's children get: actionOverride ?? "Default"
OrDefault(actionOverride) ==
  IF actionOverride = "undefined" THEN "Default" ELSE actionOverride

RECURSIVE createNodeFromValue(_, _)
RECURSIVE createProperties(_, _, _)
createProperties(entries, actionOverride, properties) ==
  IF Len(entries) = 0 THEN properties
  ELSE LET key == entries[1][1]
           val == entries[1][2]
       IN  IF val.t = "undefined"
           THEN createProperties(Tail(entries), actionOverride, properties)
           ELSE createProperties(Tail(entries), actionOverride,
                  SetProp(properties, key,
                          Change(OrDefault(actionOverride),
                                 createNodeFromValue(val, actionOverride))))

createNodeFromValue(value, actionOverride) ==
  LET type == getValueType(value)
  IN  CASE type = "primitive" -> PrimitiveNode(value)
        [] type = "array" ->
             ArrayNode([i \in 1..Len(value.items) |->
                          Change(OrDefault(actionOverride),
                                 createNodeFromValue(value.items[i], actionOverride))])
        [] type = "object" ->
             ObjectNode(createProperties(OwnEntries(value), actionOverride, <<>>))
        [] OTHER -> Thrown("unrecognized object type")

RECURSIVE matchArrayElement(_, _)
RECURSIVE countMatching(_, _, _)
\* the loop of matchArrayElement: how many of the first n index-aligned pairs match
countMatching(beforeArray, afterArray, n) ==
  IF n = 0 THEN 0
  ELSE countMatching(beforeArray, afterArray, n - 1)
       + (IF matchArrayElement(beforeArray[n], afterArray[n]) THEN 1 ELSE 0)

Min(a, b) == IF a < b THEN a ELSE b
Max(a, b) == IF a > b THEN a ELSE b

\* mutant: more than half of the keys must match
matchArrayElementStrict(b, a) ==
  IF Stringify(b) = Stringify(a) THEN TRUE
  ELSE IF getValueType(b) # getValueType(a) THEN FALSE
  ELSE IF getValueType(b) = "primitive" THEN FALSE
  ELSE IF getValueType(b) = "object"
  THEN LET beforeKeys == {b.props[i][1] : i \in 1..Len(b.props)}
           afterKeys == {a.props[i][1] : i \in 1..Len(a.props)}
           allKeys == beforeKeys \cup afterKeys
           matchingKeys == {k \in allKeys : k \in beforeKeys /\ k \in afterKeys}
       IN  IF Cardinality(allKeys) = 0 THEN TRUE
           ELSE 2 * Cardinality(matchingKeys) > Cardinality(allKeys)
  ELSE LET beforeArray == b.items
           afterArray == a.items
           minLength == Min(Len(beforeArray), Len(afterArray))
           matchingElements == countMatching(beforeArray, afterArray, minLength)
       IN  IF Len(beforeArray) = 0 /\ Len(afterArray) = 0 THEN TRUE
           ELSE 2 * matchingElements >= Max(Len(beforeArray), Len(afterArray))

matchArrayElement(b, a) ==
  IF Stringify(b) = Stringify(a) THEN TRUE
  ELSE IF getValueType(b) # getValueType(a) THEN FALSE
  ELSE IF getValueType(b) = "primitive" THEN FALSE
  ELSE IF getValueType(b) = "object"
  THEN LET beforeKeys == {b.props[i][1] : i \in 1..Len(b.props)}
           afterKeys == {a.props[i][1] : i \in 1..Len(a.props)}
           allKeys == beforeKeys \cup afterKeys
           matchingKeys == {k \in allKeys : k \in beforeKeys /\ k \in afterKeys}
       IN  IF Cardinality(allKeys) = 0 THEN TRUE
           \* matchingKeys.length / allKeys.size >= 0.5
           ELSE 2 * Cardinality(matchingKeys) >= Cardinality(allKeys)
  ELSE LET beforeArray == b.items
           afterArray == a.items
           minLength == Min(Len(beforeArray), Len(afterArray))
           matchingElements == countMatching(beforeArray, afterArray, minLength)
       IN  IF Len(beforeArray) = 0 /\ Len(afterArray) = 0 THEN TRUE
           \* matchingElements / Math.max(...) >= 0.5
           ELSE 2 * matchingElements >= Max(Len(beforeArray), Len(afterArray))

\* mutant: no look ahead in the after array
beforeNeverFoundInAfterArray(beforeItem, afterArray, afterIndex) == FALSE

\* afterArray.slice(afterIndex + 1).some((item) => matchArrayElement(beforeItem, item))
\* with the 1-based cursor
currentBeforeFoundInAfterArray(beforeItem, afterArray, afterIndex) ==
  \E k \in (afterIndex + 1)..Len(afterArray) : matchArrayElement(beforeItem, afterArray[k])

\* mutant: no look ahead in the before array
afterNeverFoundInBeforeArray(afterItem, beforeArray, beforeIndex) == FALSE

\* beforeArray.slice(beforeIndex + 1).some((item) => matchArrayElement(item, afterItem))
currentAfterFoundInBeforeArray(afterItem, beforeArray, beforeIndex) ==
  \E k \in (beforeIndex + 1)..Len(beforeArray) : matchArrayElement(beforeArray[k], afterItem)

RECURSIVE buildDiff(_, _)
RECURSIVE buildObjectDiff(_, _)
RECURSIVE buildArrayDiff(_, _)
RECURSIVE arrayLoop(_, _, _, _, _)
RECURSIVE objectLoop(_, _, _, _)

\* mutant: a matching pair that is not equal is pushed as a whole-element Replace
matchedItemsReplaced(beforeItem, afterItem, items) ==
  IF Stringify(beforeItem) = Stringify(afterItem)
  THEN Append(items, Change("Default", createNodeFromValue(afterItem, "undefined")))
  ELSE Append(items, Replace(createNodeFromValue(beforeItem, "Remove"),
                             createNodeFromValue(afterItem, "Add")))

\* mutant: the item of a matching pair is pushed twice
matchedItemsTwice(beforeItem, afterItem, items) ==
  LET item == IF Stringify(beforeItem) = Stringify(afterItem)
              THEN Change("Default", createNodeFromValue(afterItem, "undefined"))
              ELSE IF getValueType(beforeItem) = "object"
              THEN buildObjectDiff(beforeItem, afterItem)
              ELSE buildArrayDiff(beforeItem, afterItem)
  IN  Append(Append(items, item), item)

\* mutant: a matching pair that is not equal pushes nothing
matchedItemsDropped(beforeItem, afterItem, items) ==
  IF Stringify(beforeItem) = Stringify(afterItem)
  THEN Append(items, Change("Default", createNodeFromValue(afterItem, "undefined")))
  ELSE items

\* the branch of the loop for a matching pair: what it pushes to items
matchedItems(beforeItem, afterItem, items) ==
  IF Stringify(beforeItem) = Stringify(afterItem)
  THEN Append(items, Change("Default", createNodeFromValue(afterItem, "undefined")))
  ELSE IF getValueType(beforeItem) = "object"
  THEN Append(items, buildObjectDiff(beforeItem, afterItem))
  ELSE IF getValueType(beforeItem) = "array"
  THEN Append(items, buildArrayDiff(beforeItem, afterItem))
  ELSE items

\* mutant: the test for Remove is made before the test for Add
unmatchedActionRemoveFirst(beforeFound, beforeUndefined, afterFound, afterUndefined) ==
  IF afterFound \/ afterUndefined THEN "Remove"
  ELSE IF beforeFound \/ beforeUndefined THEN "Add"
  ELSE "Replace"

\* mutant: no look ahead, two items that do not match are a Replace
unmatchedActionNoLookAhead(beforeFound, beforeUndefined, afterFound, afterUndefined) ==
  IF beforeUndefined THEN "Add"
  ELSE IF afterUndefined THEN "Remove"
  ELSE "Replace"

\* the order of the tests of the loop for a pair that does not match
unmatchedAction(beforeFound, beforeUndefined, afterFound, afterUndefined) ==
  IF beforeFound \/ beforeUndefined THEN "Add"
  ELSE IF afterFound \/ afterUndefined THEN "Remove"
  ELSE "Replace"

\* the while loop of buildArrayDiff; the cursors are 1-based here
arrayLoop(beforeArray, afterArray, beforeIndex, afterIndex, items) ==
  IF ~(beforeIndex <= Len(beforeArray) \/ afterIndex <= Len(afterArray)) THEN items
  ELSE
    LET afterItem == At(afterArray, afterIndex)
        beforeItem == At(beforeArray, beforeIndex)
        action == unmatchedAction(
                    currentBeforeFoundInAfterArray(beforeItem, afterArray, afterIndex),
                    beforeItem.t = "undefined",
                    currentAfterFoundInBeforeArray(afterItem, beforeArray, beforeIndex),
                    afterItem.t = "undefined")
    IN
    IF matchArrayElement(beforeItem, afterItem)
    THEN arrayLoop(beforeArray, afterArray, beforeIndex + 1, afterIndex + 1,
                   matchedItems(beforeItem, afterItem, items))
    ELSE IF action = "Add"
    THEN arrayLoop(beforeArray, afterArray, beforeIndex, afterIndex + 1,
           Append(items, Change("Add", createNodeFromValue(afterItem, "Add"))))
    ELSE IF action = "Remove"
    THEN arrayLoop(beforeArray, afterArray, beforeIndex + 1, afterIndex,
           Append(items, Change("Remove", createNodeFromValue(beforeItem, "Remove"))))
    ELSE arrayLoop(beforeArray, afterArray, beforeIndex + 1, afterIndex + 1,
           Append(items, Replace(createNodeFromValue(beforeItem, "Remove"),
                                 createNodeFromValue(afterItem, "Add"))))

buildArrayDiff(beforeArr, afterArr) ==
  Change("Default", ArrayNode(arrayLoop(beforeArr.items, afterArr.items, 1, 1, <<>>)))

\* new Set([...Object.keys(beforeObj), ...Object.keys(afterObj)]): a Set keeps
\* insertion order
\* mutant: the keys of the before object alone
allKeysOfBeforeOnly(beforeProps, afterProps) == ObjectKeys(beforeProps)

allKeysOf(beforeProps, afterProps) ==
  ObjectKeys(beforeProps)
    \o SelectSeq(ObjectKeys(afterProps), LAMBDA k : ~HasKey(beforeProps, k))

\* the for loop of buildObjectDiff over the keys still to visit
objectLoop(beforeObj, afterObj, keys, properties) ==
  IF Len(keys) = 0 THEN properties
  ELSE
    LET key == keys[1]
        beforeValue == PropertyOf(beforeObj, key)
        afterValue == PropertyOf(afterObj, key)
        entry ==
          IF ~In(beforeObj, key)
          THEN Change("Add", createNodeFromValue(afterValue, "Add"))
          ELSE IF ~In(afterObj, key)
          THEN Change("Remove", createNodeFromValue(beforeValue, "Remove"))
          ELSE buildDiff(beforeValue, afterValue)
    IN  objectLoop(beforeObj, afterObj, Tail(keys), SetProp(properties, key, entry))

buildObjectDiff(beforeObj, afterObj) ==
  Change("Default",
         ObjectNode(objectLoop(beforeObj, afterObj,
                               allKeysOf(OwnEntries(beforeObj), OwnEntries(afterObj)),
                               <<>>)))

\* mutant: value === null, which undefined is not
IsNullStrict(v) == v.t = "null"

\* value == null
IsNullish(v) == v.t \in {"null", "undefined"}

\* mutant: the before side of a type change is lost
typeChangeDiffAddOnly(beforeValue, afterValue) ==
  Change("Add", createNodeFromValue(afterValue, "Add"))

\* the diff of two values whose types differ
typeChangeDiff(beforeValue, afterValue) ==
  Replace(createNodeFromValue(beforeValue, "Remove"),
          createNodeFromValue(afterValue, "Add"))

\* mutant: the comparison of the two primitives is inverted
primitiveDiffInverted(beforeValue, afterValue) ==
  IF beforeValue # afterValue
  THEN Change("Default", PrimitiveNode(afterValue))
  ELSE Replace(PrimitiveNode(beforeValue), PrimitiveNode(afterValue))

\* mutant: two primitives are a Replace even when they are the same
primitiveDiffAlwaysReplace(beforeValue, afterValue) ==
  Replace(PrimitiveNode(beforeValue), PrimitiveNode(afterValue))

\* the diff of two primitives: beforeValue === afterValue decides
primitiveDiff(beforeValue, afterValue) ==
  IF beforeValue = afterValue
  THEN Change("Default", PrimitiveNode(afterValue))
  ELSE Replace(PrimitiveNode(beforeValue), PrimitiveNode(afterValue))

buildDiff(beforeValue, afterValue) ==
  IF IsNullish(beforeValue) /\ IsNullish(afterValue)
  THEN Change("Default", PrimitiveNode(Null))
  ELSE IF IsNullish(beforeValue)
  THEN Change("Add", createNodeFromValue(afterValue, "Add"))
  ELSE IF IsNullish(afterValue)
  THEN Change("Remove", createNodeFromValue(beforeValue, "Remove"))
  ELSE
    LET beforeType == getValueType(beforeValue)
        afterType == getValueType(afterValue)
    IN  IF beforeType # afterType
        THEN typeChangeDiff(beforeValue, afterValue)
        ELSE IF beforeType = "primitive"
        THEN primitiveDiff(beforeValue, afterValue)
        ELSE IF beforeType = "array"
        THEN buildArrayDiff(beforeValue, afterValue)
        ELSE IF beforeType = "object"
        THEN buildObjectDiff(beforeValue, afterValue)
        ELSE Change("Thrown", Thrown("unhandled type"))

RECURSIVE hasChanges(_)
\* mutant: the items of an array are not looked at
hasChangesNoArrays(d) ==
  IF d.action # "Default" THEN TRUE
  ELSE IF d.node.type = "object"
  THEN \E i \in 1..Len(d.node.properties) : hasChanges(d.node.properties[i][2])
  ELSE FALSE

hasChanges(d) ==
  IF d.action # "Default" THEN TRUE
  ELSE IF d.node.type = "object"
  THEN \E i \in 1..Len(d.node.properties) : hasChanges(d.node.properties[i][2])
  ELSE IF d.node.type = "array"
  THEN \E i \in 1..Len(d.node.items) : hasChanges(d.node.items[i])
  ELSE FALSE

(***************************************************************************)
(* Rendering.                                                              *)
(***************************************************************************)
\* message.includes(part)
Includes(message, part) ==
  \E i \in 1..(Len(message) - Len(part) + 1) :
     SubSeq(message, i, i + Len(part) - 1) = part

\* actionMap[action].icon and actionMap[action].color
actionIcon(action) ==
  CASE action = "Default" -> " "
    [] action = "Add" -> "+"
    [] action = "Remove" -> "-"
actionColor(action) ==
  CASE action = "Default" -> "white"
    [] action = "Add" -> "green"
    [] action = "Remove" -> "red"

\* a chalk style applied to a string: the string between the style's marks
Chalk(style, s) == "<" \o style \o ">" \o s \o "</" \o style \o ">"

\* Logger.formatDiffString; an option that is not set holds "undefined"
formatDiffString(message, action, opts) ==
  LET icon == IF opts.iconOverride = "undefined" THEN actionIcon(action)
              ELSE opts.iconOverride
  IN  IF opts.showColor
      THEN LET color == IF opts.colorOverride = "undefined" THEN actionColor(action)
                        ELSE opts.colorOverride
           IN  IF Includes(message, "WARNING")
               THEN Chalk("bold", Chalk(color, icon \o " " \o message))
               ELSE Chalk(color, icon \o " " \o message)
      ELSE icon \o " " \o message

\* the segments of a path: the strings between its separators, from
\* character i on, current being the segment read so far
RECURSIVE SplitPath(_, _, _)
SplitPath(path, i, current) ==
  IF i > Len(path) THEN <<current>>
  ELSE IF SubSeq(path, i, i) = "/" THEN <<current>> \o SplitPath(path, i + 1, "")
  ELSE SplitPath(path, i + 1, current \o SubSeq(path, i, i))

\* normalizeString of node:path: empty and "." segments are dropped, ".."
\* takes the segment before it away, or stays when there is none to take
RECURSIVE normalizeString(_, _, _, _)
normalizeString(segments, i, allowAboveRoot, res) ==
  IF i > Len(segments) THEN res
  ELSE IF segments[i] \in {"", "."}
  THEN normalizeString(segments, i + 1, allowAboveRoot, res)
  ELSE IF segments[i] = ".."
  THEN IF Len(res) > 0 /\ res[Len(res)] # ".."
       THEN normalizeString(segments, i + 1, allowAboveRoot, SubSeq(res, 1, Len(res) - 1))
       ELSE IF allowAboveRoot
       THEN normalizeString(segments, i + 1, allowAboveRoot, Append(res, ".."))
       ELSE normalizeString(segments, i + 1, allowAboveRoot, res)
  ELSE normalizeString(segments, i + 1, allowAboveRoot, Append(res, segments[i]))

\* path.posix.normalize
normalize(path) ==
  IF Len(path) = 0 THEN "."
  ELSE LET isAbsolute == SubSeq(path, 1, 1) = "/"
           trailingSeparator == SubSeq(path, Len(path), Len(path)) = "/"
           normalized == JoinStrings(
                           normalizeString(SplitPath(path, 1, ""), 1, ~isAbsolute, <<>>), "/")
       IN  IF Len(normalized) = 0
           THEN (IF isAbsolute THEN "/" ELSE IF trailingSeparator THEN "./" ELSE ".")
           ELSE (IF isAbsolute THEN "/" ELSE "") \o normalized
                  \o (IF trailingSeparator THEN "/" ELSE "")

\* a segment normalize leaves as it is: not empty, no dot segment, no separator
IsPlainSegment(segment) ==
  /\ segment \notin {"", ".", ".."}
  /\ \A i \in 1..Len(segment) : SubSeq(segment, i, i) # "/"

\* join of node:path for a path and one segment: the arguments that are not
\* empty, joined by "/" and normalized; "." when there is none. The path is
\* the empty path of the root or a result of join, so it is normalized
\* already, and a plain segment is appended to it as it is (unless the path
\* is "." or ends with a separator, which normalize takes away).
Join(path, segment) ==
  IF path = "" /\ segment = "" THEN "."
  ELSE IF path = "" THEN normalize(segment)
  ELSE IF segment = "" THEN normalize(path)
  ELSE IF IsPlainSegment(segment) /\ path # "."
          /\ SubSeq(path, Len(path), Len(path)) # "/"
  THEN path \o "/" \o segment
  ELSE normalize(path \o "/" \o segment)

\* ` # ${changeNotes[currentPath]}` when currentPath in changeNotes
noteOf(notes, currentPath) ==
  IF HasKey(notes, currentPath) THEN " # " \o GetProp(notes, currentPath)
  ELSE IF In(Obj(notes), currentPath)
  THEN " # " \o FunctionText(PropertyOf(Obj(notes), currentPath))
  ELSE ""

\* `${key}: ` when key is not empty
keyText(key) == IF key # "" THEN key \o ": " ELSE ""

RECURSIVE getDiffLines(_, _, _, _, _, _)
RECURSIVE propertyLines(_, _, _, _, _, _, _)
RECURSIVE itemLines(_, _, _, _, _, _, _)

\* mutant: the indent of the later properties is not widened by the prefix
propertyLinesNotWidened(entries, i, opts, notes, propertyIndent, parentArrayPrefix, currentPath) ==
  IF i > Len(entries) THEN <<>>
  ELSE getDiffLines(entries[i][2], [opts EXCEPT !.indent = propertyIndent], notes,
                    entries[i][1], parentArrayPrefix, Join(currentPath, entries[i][1]))
       \o propertyLines(entries, i + 1, opts, notes, propertyIndent, "", currentPath)

\* mutant: the prefix is kept until a property has returned a line
propertyLinesPrefixKept(entries, i, opts, notes, propertyIndent, parentArrayPrefix, currentPath) ==
  IF i > Len(entries) THEN <<>>
  ELSE LET returned == getDiffLines(entries[i][2], [opts EXCEPT !.indent = propertyIndent],
                                    notes, entries[i][1], parentArrayPrefix,
                                    Join(currentPath, entries[i][1]))
       IN  returned
           \o (IF returned = <<>>
               THEN propertyLines(entries, i + 1, opts, notes, propertyIndent,
                                  parentArrayPrefix, currentPath)
               ELSE propertyLines(entries, i + 1, opts, notes,
                                  propertyIndent + Len(parentArrayPrefix), "", currentPath))

\* the for loop over the entries of an object node, from entry i on
propertyLines(entries, i, opts, notes, propertyIndent, parentArrayPrefix, currentPath) ==
  IF i > Len(entries) THEN <<>>
  ELSE getDiffLines(entries[i][2], [opts EXCEPT !.indent = propertyIndent], notes,
                    entries[i][1], parentArrayPrefix, Join(currentPath, entries[i][1]))
       \o propertyLines(entries, i + 1, opts, notes,
                        propertyIndent + Len(parentArrayPrefix), "", currentPath)

\* the for loop over the items of an array node, from item i on (1-based, so
\* the path segment String(i + 1) of the code is ToString(i))
itemLines(items, i, opts, notes, itemIndent, parentArrayPrefix, currentPath) ==
  IF i > Len(items) THEN <<>>
  ELSE getDiffLines(items[i], [opts EXCEPT !.indent = itemIndent], notes,
                    "", parentArrayPrefix \o "- ", Join(currentPath, ToString(i)))
       \o itemLines(items, i + 1, opts, notes,
                    itemIndent + Len(parentArrayPrefix), "", currentPath)

\* mutant: the after side is rendered before the before side
replaceLinesAddFirst(d, opts, notes, key, arrayPrefix, currentPath) ==
  getDiffLines(Change("Add", d.afterNode), opts, notes, key, arrayPrefix, currentPath)
    \o getDiffLines(Change("Remove", d.beforeNode), opts, notes, key, arrayPrefix,
                    currentPath)

\* mutant: the Add side always repeats the whole array prefix
replaceLinesRepeatPrefix(d, opts, notes, key, arrayPrefix, currentPath) ==
  getDiffLines(Change("Remove", d.beforeNode), opts, notes, key, arrayPrefix,
               currentPath)
    \o getDiffLines(Change("Add", d.afterNode), opts, notes, key, arrayPrefix,
                    currentPath)

\* mutant: the Add side never carries an array marker
replaceLinesNoMarker(d, opts, notes, key, arrayPrefix, currentPath) ==
  getDiffLines(Change("Remove", d.beforeNode), opts, notes, key, arrayPrefix,
               currentPath)
    \o getDiffLines(Change("Add", d.afterNode),
                    [opts EXCEPT !.indent = opts.indent + Len(arrayPrefix)], notes, key,
                    "", currentPath)

\* getDiffLines, the branch of a Replace
replaceLines(d, opts, notes, key, arrayPrefix, currentPath) ==
  LET sameKeyed == key # "" /\ d.beforeNode.type = d.afterNode.type
      replacementIndent ==
        IF arrayPrefix = "" THEN opts.indent
        ELSE IF sameKeyed THEN opts.indent + Len(arrayPrefix)
        ELSE opts.indent + Len(arrayPrefix) - 2
      replacementArrayPrefix ==
        IF arrayPrefix = "" THEN arrayPrefix
        ELSE IF sameKeyed THEN ""
        ELSE "- "
  IN  getDiffLines(Change("Remove", d.beforeNode), opts, notes, key, arrayPrefix,
                   currentPath)
      \o getDiffLines(Change("Add", d.afterNode),
                      [opts EXCEPT !.indent = replacementIndent], notes, key,
                      replacementArrayPrefix, currentPath)

\* getDiffLines, the branch of a primitive node
primitiveLines(d, opts, notes, key, arrayPrefix, currentPath) ==
  << formatDiffString(Spaces(opts.indent) \o arrayPrefix \o keyText(key)
                        \o Stringify(d.node.value) \o noteOf(notes, currentPath),
                      d.action, opts) >>

\* mutant: an object without properties is not a case of its own
objectLinesNoEmptyCase(d, opts, notes, key, arrayPrefix, currentPath) ==
  LET entries == d.node.properties
  IN  IF key # ""
      THEN << formatDiffString(Spaces(opts.indent) \o arrayPrefix \o key \o ":"
                                 \o noteOf(notes, currentPath), d.action, opts) >>
           \o propertyLines(entries, 1, opts, notes,
                            opts.indent + 2 + Len(arrayPrefix), "", currentPath)
      ELSE propertyLines(entries, 1, opts, notes, opts.indent, arrayPrefix, currentPath)

\* getDiffLines, the branch of an object node
objectLines(d, opts, notes, key, arrayPrefix, currentPath) ==
  LET entries == d.node.properties
      indentSpaces == Spaces(opts.indent)
      note == noteOf(notes, currentPath)
  IN  IF Len(entries) = 0
      THEN << formatDiffString(indentSpaces \o arrayPrefix \o keyText(key)
                                 \o "{}" \o note, d.action, opts) >>
      ELSE IF key # ""
      THEN << formatDiffString(indentSpaces \o arrayPrefix \o key \o ":" \o note,
                               d.action, opts) >>
           \o propertyLines(entries, 1, opts, notes,
                            opts.indent + 2 + Len(arrayPrefix), "", currentPath)
      ELSE propertyLines(entries, 1, opts, notes, opts.indent, arrayPrefix, currentPath)

\* mutant: an array without items is not a case of its own
arrayLinesNoEmptyCase(d, opts, notes, key, arrayPrefix, currentPath) ==
  LET items == d.node.items
  IN  IF key # ""
      THEN << formatDiffString(Spaces(opts.indent) \o arrayPrefix \o key \o ":"
                                 \o noteOf(notes, currentPath), d.action, opts) >>
           \o itemLines(items, 1, opts, notes,
                        opts.indent + 2 + Len(arrayPrefix), "", currentPath)
      ELSE itemLines(items, 1, opts, notes, opts.indent, arrayPrefix, currentPath)

\* getDiffLines, the branch of an array node
arrayLines(d, opts, notes, key, arrayPrefix, currentPath) ==
  LET items == d.node.items
      indentSpaces == Spaces(opts.indent)
      note == noteOf(notes, currentPath)
  IN  IF Len(items) = 0
      THEN << formatDiffString(indentSpaces \o arrayPrefix \o keyText(key)
                                 \o "[]" \o note, d.action, opts) >>
      ELSE IF key # ""
      THEN << formatDiffString(indentSpaces \o arrayPrefix \o key \o ":" \o note,
                               d.action, opts) >>
           \o itemLines(items, 1, opts, notes,
                        opts.indent + 2 + Len(arrayPrefix), "", currentPath)
      ELSE itemLines(items, 1, opts, notes, opts.indent, arrayPrefix, currentPath)

getDiffLines(d, opts, notes, key, arrayPrefix, currentPath) ==
  IF ~opts.showUnchangedProperties /\ ~hasChanges(d) THEN <<>>
  ELSE IF d.action = "Replace"
  THEN replaceLines(d, opts, notes, key, arrayPrefix, currentPath)
  ELSE IF d.node.type = "primitive"
  THEN primitiveLines(d, opts, notes, key, arrayPrefix, currentPath)
  ELSE IF d.node.type = "object"
  THEN objectLines(d, opts, notes, key, arrayPrefix, currentPath)
  ELSE IF d.node.type = "array"
  THEN arrayLines(d, opts, notes, key, arrayPrefix, currentPath)
  ELSE <<>>

\* the options record getObjectDiff hands to getDiffLines
logOptions(o) ==
  [indent |-> 0,
   showColor |-> o.showColor,
   showUnchangedProperties |-> o.showUnchangedProperties,
   iconOverride |-> o.iconOverride,
   colorOverride |-> o.colorOverride]

getObjectDiff(b, a, o, notes) ==
  getDiffLines(buildDiff(b, a), logOptions(o), notes, "", "", "")

(***************************************************************************)
(* The inputs: the values that are compared, the options and the notes.    *)
(***************************************************************************)
SeqsUpTo(S, n) == UNION {[1..k -> S] : k \in 0..n}

\* an object literal: the properties set one after the other
RECURSIVE PropsOf(_)
PropsOf(pairs) ==
  IF Len(pairs) = 0 THEN <<>>
  ELSE SetProp(PropsOf(SubSeq(pairs, 1, Len(pairs) - 1)),
               pairs[Len(pairs)][1], pairs[Len(pairs)][2])
ObjOf(pairs) == Obj(PropsOf(pairs))

ElemPrims == {Str("x"), Num(1)}
DistinctPrims == {Str("x"), Str("y"), Num(1)}
Keys == {"a", "b", "1"}
PropVals == {Str("x"), Num(1)}

\* arrays of primitives
FlatArrays == {Arr(s) : s \in SeqsUpTo(ElemPrims, MaxLen)}

\* arrays of pairwise distinct primitives, so every reordering of an array
Reorderings ==
  {Arr(s) : s \in {q \in SeqsUpTo(DistinctPrims, Cardinality(DistinctPrims)) :
                     \A i, j \in 1..Len(q) : i # j => q[i] # q[j]}}

\* objects of at most two primitive properties, every property order
FlatObjects ==
  {ObjOf(<<>>)}
    \cup {ObjOf(<< <<k, v>> >>) : k \in Keys, v \in PropVals \cup {Undefined}}
    \cup {ObjOf(<< <<k[1], v[1]>>, <<k[2], v[2]>> >>) :
            k \in {q \in Keys \X Keys : q[1] # q[2]}, v \in PropVals \X PropVals}

\* arrays of arrays and arrays of objects
ArrayElems == {Arr(<<>>), Arr(<<Str("x")>>), Arr(<<Str("x"), Str("y")>>)}
ObjectElems ==
  {ObjOf(<< <<"a", Str("x")>> >>), ObjOf(<< <<"a", Num(1)>>, <<"b", Str("x")>> >>),
   ObjOf(<< <<"b", Str("x")>> >>)}
ArraysOfArrays == {Arr(s) : s \in SeqsUpTo(ArrayElems, MaxNest)}
ArraysOfObjects == {Arr(s) : s \in SeqsUpTo(ObjectElems, MaxNest)}

\* values of every type, and containers under a key and in an array
Mixed ==
  {Undefined, Null, Str("x"), Str("y"), Num(1), Bool(FALSE),
   Arr(<<>>), Arr(<<Str("x")>>), ObjOf(<<>>), ObjOf(<< <<"a", Str("x")>> >>),
   ObjOf(<< <<"a", Arr(<<>>)>> >>),
   ObjOf(<< <<"a", Arr(<<Str("x")>>)>> >>),
   ObjOf(<< <<"a", Arr(<<Str("x"), Str("y")>>)>>, <<"b", Num(1)>> >>),
   ObjOf(<< <<"a", ObjOf(<<>>)>> >>),
   ObjOf(<< <<"a", ObjOf(<< <<"b", Str("x")>> >>)>> >>),
   ObjOf(<< <<"a", ObjOf(<< <<"b", Num(1)>> >>)>>, <<"b", Undefined>> >>),
   Arr(<<ObjOf(<< <<"a", Arr(<<Str("x")>>)>> >>)>>),
   Arr(<<ObjOf(<< <<"a", Arr(<<Str("y")>>)>>, <<"b", Str("x")>> >>)>>),
   Arr(<<ObjOf(<< <<"b", Str("x")>>, <<"a", ObjOf(<< <<"b", Num(1)>> >>)>> >>), Num(1)>>),
   Arr(<<Arr(<<Arr(<<Str("x")>>)>>), Arr(<<Str("y")>>)>>),
   Arr(<<Arr(<<ObjOf(<< <<"a", Str("x")>> >>)>>)>>),
   Arr(<<ObjOf(<<>>)>>), Arr(<<ObjOf(<<>>), ObjOf(<< <<"a", Str("x")>> >>)>>),
   ObjOf(<< <<"a", Null>> >>),
   ObjOf(<< <<"constructor", Str("x")>> >>),
   ObjOf(<< <<"a", Str("x")>>, <<"toString", Num(1)>> >>),
   Arr(<<ObjOf(<< <<"a", Str("x")>>, <<"b", Num(1)>> >>)>>),
   Arr(<<ObjOf(<< <<"b", Num(1)>>, <<"a", Str("x")>> >>)>>)}

\* the inputs of the scenarios of the test suite
Reordered ==
  <<Arr(<<Str("alice"), Str("bob"), Str("charlie"), Str("david")>>),
    Arr(<<Str("charlie"), Str("alice"), Str("bob"), Str("david")>>)>>
TypeTransformed ==
  <<Arr(<<Str("string"), Num(42), ObjOf(<< <<"obj", Str("value")>> >>)>>),
    Arr(<<ObjOf(<< <<"converted", Str("object")>> >>),
          Arr(<<Num(1), Num(2), Num(3)>>), Str("string")>>)>>
SimpleDiff == <<Str("before"), Str("after")>>
SimpleObject ==
  <<ObjOf(<< <<"hello", Str("world")>> >>), ObjOf(<< <<"hello", Str("moon")>> >>)>>
EmptyReplaced == <<Str("hello"), Arr(<<>>)>>
NestedTypeChanges ==
  <<Arr(<<ObjOf(<< <<"id", Num(1)>>,
                   <<"tags", Arr(<<Str("tag1"), Str("tag2")>>)>>,
                   <<"metadata", ObjOf(<< <<"created", Str("2023-01-01")>>,
                                          <<"settings", Arr(<<Str("setting1")>>)>> >>)>> >>),
          ObjOf(<< <<"id", Num(2)>>,
                   <<"tags", Arr(<<Str("tag3")>>)>>,
                   <<"metadata", ObjOf(<< <<"created", Str("2023-01-02")>>,
                                          <<"settings", Arr(<<>>)>> >>)>> >>)>>),
    Arr(<<ObjOf(<< <<"id", Num(1)>>,
                   <<"tags", Arr(<<Str("tag1"), Str("tag2"), Str("tag3")>>)>>,
                   <<"metadata", ObjOf(<< <<"created", Str("2023-01-01")>>,
                                          <<"settings", ObjOf(<< <<"mode", Str("advanced")>> >>)>> >>)>> >>),
          ObjOf(<< <<"id", Num(3)>>,
                   <<"tags", Arr(<<Str("new_tag")>>)>>,
                   <<"metadata", ObjOf(<< <<"created", Str("2023-01-03")>>,
                                          <<"settings", Arr(<<Str("setting2"), Str("setting3")>>)>> >>)>> >>)>>)>>
\* an array element whose first property is unchanged and whose second changes
FirstPropertyUnchanged ==
  <<Arr(<<ObjOf(<< <<"a", Str("x")>>, <<"b", Num(1)>> >>)>>),
    Arr(<<ObjOf(<< <<"a", Str("x")>>, <<"b", Num(2)>> >>)>>)>>
\* properties whose keys are the dot segments of a path
DotKeys ==
  <<ObjOf(<< <<"a", ObjOf(<< <<".", Str("x")>>, <<"b", ObjOf(<< <<"..", Num(1)>> >>)>> >>)>> >>),
    ObjOf(<< <<"a", ObjOf(<< <<".", Str("y")>>, <<"b", ObjOf(<< <<"..", Num(2)>> >>)>> >>)>> >>)>>
Scenarios ==
  {Reordered, TypeTransformed, SimpleDiff, SimpleObject, EmptyReplaced, NestedTypeChanges,
   FirstPropertyUnchanged, DotKeys}

Pairs ==
  (Mixed \X Mixed) \cup (FlatArrays \X FlatArrays) \cup (Reorderings \X Reorderings) \cup (FlatObjects \X FlatObjects)
    \cup (ArraysOfArrays \X ArraysOfArrays) \cup (ArraysOfObjects \X ArraysOfObjects)
    \cup Scenarios

\* the options of a call; an override is set together with the other one
OptionsSet ==
  {[showColor |-> c, showUnchangedProperties |-> u, iconOverride |-> o[1],
    colorOverride |-> o[2]] :
     c \in BOOLEAN, u \in BOOLEAN, o \in {<<"undefined", "undefined">>, <<"~", "cyan">>}}

NotesSet ==
  {<<>>, << <<"a", "WARNING: Requires Replacement!">>, <<"1", "May require replacement!">> >>}

(***************************************************************************)
(* The calls.                                                              *)
(***************************************************************************)
NoDiff == [action |-> "none"]
\* the state of getChangeSetChanges outside of a call of it
NoFetch == [pc |-> "none"]
\* the cursors and the items of buildArrayDiff outside of its loop
NoLoop == [beforeIndex |-> 0, afterIndex |-> 0, items |-> <<>>]
NoOptions == [showColor |-> FALSE, showUnchangedProperties |-> FALSE,
              iconOverride |-> "undefined", colorOverride |-> "undefined"]

Init ==
  /\ \E p \in Pairs : before = p[1] /\ after = p[2]
  /\ diff = NoDiff
  /\ options = NoOptions
  /\ changeNotes = <<>>
  /\ lines = <<>>
  /\ pc = "start"
  /\ loop = NoLoop
  /\ fetch = NoFetch

\* mutant: the array of lines outlives the call
stringsOfEarlierCall(returned) == returned

\* let strings = []: the array a call of getDiffLines collects its lines in is
\* a new one, whatever an earlier call returned
strings(returned) == <<>>

\* buildDiff(before, after)
BuildDiff ==
  /\ pc = "start"
  /\ diff' = buildDiff(before, after)
  /\ pc' = "built"
  /\ UNCHANGED <<before, after, options, changeNotes, lines, loop, fetch>>

\* getDiffLines(diff, options, changeNotes) on the tree buildDiff returned
GetDiffLines ==
  /\ pc = "built"
  /\ \E o \in OptionsSet, n \in NotesSet :
       /\ options' = o
       /\ changeNotes' = n
       /\ lines' = strings(lines) \o getDiffLines(diff, logOptions(o), n, "", "", "")
  /\ pc' = "rendered"
  /\ UNCHANGED <<before, after, diff, loop, fetch>>

\* getDiffLines once more on the same tree and notes, with the same options or
\* with the unchanged properties shown when they were not, and the reverse
RenderAgain ==
  /\ pc \in {"rendered", "rendered again"}
  /\ \E o \in {options, [options EXCEPT !.showUnchangedProperties = ~@]} :
       /\ options' = o
       /\ lines' = strings(lines) \o getDiffLines(diff, logOptions(o), changeNotes, "", "", "")
  /\ pc' = "rendered again"
  /\ UNCHANGED <<before, after, diff, changeNotes, loop, fetch>>

\* getObjectDiff(before, after, options, changeNotes)
GetObjectDiff ==
  /\ pc = "start"
  /\ \E o \in OptionsSet, n \in NotesSet :
       /\ options' = o
       /\ changeNotes' = n
       /\ diff' = buildDiff(before, after)
       /\ lines' = strings(lines) \o getObjectDiff(before, after, o, n)
  /\ pc' = "rendered"
  /\ UNCHANGED <<before, after, loop, fetch>>

Next == BuildDiff \/ GetDiffLines \/ GetObjectDiff

Spec == Init /\ [][Next]_vars

\* the calls on one tree, rendered any number of times: the values of every
\* type and the shorter arrays of containers
RenderPairs ==
  (Mixed \X Mixed) \cup Scenarios
    \cup ({Arr(s) : s \in SeqsUpTo(ObjectElems, MaxNest - 1)}
            \X {Arr(s) : s \in SeqsUpTo(ObjectElems, MaxNest - 1)})
    \cup ({Arr(s) : s \in SeqsUpTo(ArrayElems, MaxNest - 1)}
            \X {Arr(s) : s \in SeqsUpTo(ArrayElems, MaxNest - 1)})

InitRender ==
  /\ \E p \in RenderPairs : before = p[1] /\ after = p[2]
  /\ diff = NoDiff
  /\ options = NoOptions
  /\ changeNotes = <<>>
  /\ lines = <<>>
  /\ pc = "start"
  /\ loop = NoLoop
  /\ fetch = NoFetch

NextRender == BuildDiff \/ GetDiffLines \/ GetObjectDiff \/ RenderAgain

SpecRender == InitRender /\ [][NextRender]_vars

\* an array of up to MaxLen pairwise distinct primitives against each of its
\* permutations
DistinctElems == <<Str("x"), Str("y"), Num(1), Num(2), Bool(FALSE), Null>>
PermutationPairs ==
  {<<Arr(SubSeq(DistinctElems, 1, Len(q))), Arr(q)>> :
     q \in {r \in SeqsUpTo({DistinctElems[i] : i \in 1..Min(MaxLen, Len(DistinctElems))},
                            Min(MaxLen, Len(DistinctElems))) :
              {r[i] : i \in 1..Len(r)} = {DistinctElems[i] : i \in 1..Len(r)}}}

\* the calls of buildDiff with two arrays
ArrayPairs ==
  (FlatArrays \X FlatArrays) \cup (Reorderings \X Reorderings)
    \cup (ArraysOfArrays \X ArraysOfArrays) \cup (ArraysOfObjects \X ArraysOfObjects)
    \cup {Reordered, TypeTransformed} \cup PermutationPairs
InitArrays ==
  /\ \E p \in ArrayPairs : before = p[1] /\ after = p[2]
  /\ diff = NoDiff
  /\ options = NoOptions
  /\ changeNotes = <<>>
  /\ lines = <<>>
  /\ pc = "start"
  /\ loop = NoLoop
  /\ fetch = NoFetch
NextArrays == BuildDiff
SpecArrays == InitArrays /\ [][NextArrays]_vars

\* the calls of buildDiff alone, with every pair of values
NextBuild == BuildDiff
SpecBuild == Init /\ [][NextBuild]_vars

\* buildArrayDiff step by step: the state of its while loop is the two
\* cursors (1-based here) and the items pushed so far
InitLoop ==
  /\ \E p \in ArrayPairs : before = p[1] /\ after = p[2]
  /\ diff = NoDiff
  /\ options = NoOptions
  /\ changeNotes = <<>>
  /\ lines = <<>>
  /\ pc = "loop"
  /\ loop = [beforeIndex |-> 1, afterIndex |-> 1, items |-> <<>>]
  /\ fetch = NoFetch

\* the condition of the while loop
LoopCondition ==
  loop.beforeIndex <= Len(before.items) \/ loop.afterIndex <= Len(after.items)
beforeItemOfLoop == At(before.items, loop.beforeIndex)
afterItemOfLoop == At(after.items, loop.afterIndex)
\* the branch the iteration takes when the two items do not match
actionOfLoop ==
  unmatchedAction(
    currentBeforeFoundInAfterArray(beforeItemOfLoop, after.items, loop.afterIndex),
    beforeItemOfLoop.t = "undefined",
    currentAfterFoundInBeforeArray(afterItemOfLoop, before.items, loop.beforeIndex),
    afterItemOfLoop.t = "undefined")

\* an iteration whose items match
IterateMatch ==
  /\ pc = "loop" /\ LoopCondition
  /\ matchArrayElement(beforeItemOfLoop, afterItemOfLoop)
  /\ loop' = [beforeIndex |-> loop.beforeIndex + 1, afterIndex |-> loop.afterIndex + 1,
              items |-> matchedItems(beforeItemOfLoop, afterItemOfLoop, loop.items)]
  /\ UNCHANGED <<before, after, diff, options, changeNotes, lines, pc, fetch>>

\* an iteration that pushes an Add
IterateAdd ==
  /\ pc = "loop" /\ LoopCondition
  /\ ~matchArrayElement(beforeItemOfLoop, afterItemOfLoop)
  /\ actionOfLoop = "Add"
  /\ loop' = [beforeIndex |-> loop.beforeIndex, afterIndex |-> loop.afterIndex + 1,
              items |-> Append(loop.items,
                               Change("Add", createNodeFromValue(afterItemOfLoop, "Add")))]
  /\ UNCHANGED <<before, after, diff, options, changeNotes, lines, pc, fetch>>

\* an iteration that pushes a Remove
IterateRemove ==
  /\ pc = "loop" /\ LoopCondition
  /\ ~matchArrayElement(beforeItemOfLoop, afterItemOfLoop)
  /\ actionOfLoop = "Remove"
  /\ loop' = [beforeIndex |-> loop.beforeIndex + 1, afterIndex |-> loop.afterIndex,
              items |-> Append(loop.items,
                               Change("Remove",
                                      createNodeFromValue(beforeItemOfLoop, "Remove")))]
  /\ UNCHANGED <<before, after, diff, options, changeNotes, lines, pc, fetch>>

\* an iteration that pushes a Replace
IterateReplace ==
  /\ pc = "loop" /\ LoopCondition
  /\ ~matchArrayElement(beforeItemOfLoop, afterItemOfLoop)
  /\ actionOfLoop = "Replace"
  /\ loop' = [beforeIndex |-> loop.beforeIndex + 1, afterIndex |-> loop.afterIndex + 1,
              items |-> Append(loop.items,
                               Replace(createNodeFromValue(beforeItemOfLoop, "Remove"),
                                       createNodeFromValue(afterItemOfLoop, "Add")))]
  /\ UNCHANGED <<before, after, diff, options, changeNotes, lines, pc, fetch>>

\* return { action: "Default", node: { type: "array", items } }
ReturnArrayDiff ==
  /\ pc = "loop" /\ ~LoopCondition
  /\ diff' = Change("Default", ArrayNode(loop.items))
  /\ pc' = "built"
  /\ UNCHANGED <<before, after, options, changeNotes, lines, loop, fetch>>

NextLoop ==
  IterateMatch \/ IterateAdd \/ IterateRemove \/ IterateReplace \/ ReturnArrayDiff
\* the call runs on: no iteration and no return is put off for ever
SpecLoop == InitLoop /\ [][NextLoop]_vars /\ WF_vars(NextLoop)

(***************************************************************************)
(* getChangeSetChanges of index.mjs: the change set is read from a file or *)
(* fetched from the API, the request being sent again after a sleep while  *)
(* the API throttles.                                                      *)
(***************************************************************************)
\* the change set ids of the calls: a file and a change set of the API
ChangeSetIds == {"file://changeset.json", "arn:aws:cloudformation:changeSet/my-change-set"}
startsWith(s, prefix) == Len(s) >= Len(prefix) /\ SubSeq(s, 1, Len(prefix)) = prefix

\* what the file holds and what the API answers: a change set with its
\* Changes, or without
Responses ==
  {[Changes |-> Undefined], [Changes |-> Arr(<<>>)], [Changes |-> Arr(<<Str("change")>>)]}
\* what cfn.send rejects with: an Error of a name, or a value that is no Error
Rejections ==
  {[isError |-> TRUE, name |-> "Throttling"], [isError |-> TRUE, name |-> "ValidationError"],
   [isError |-> FALSE, name |-> "Throttling"]}
\* no error caught yet
NoError == [isError |-> FALSE, name |-> "none"]
\* Math.random() * 1000, in milliseconds
Jitters == {0, 500, 999}

\* response.Changes ?? []
ChangesOf(response) ==
  IF response.Changes.t = "undefined" THEN Arr(<<>>) ELSE response.Changes

RECURSIVE Pow2(_)
Pow2(n) == IF n = 0 THEN 1 ELSE 2 * Pow2(n - 1)

\* mutant: one more attempt is allowed
attemptsExceededLater(attempts) == attempts > 6

\* attempts++ > 5, for the value of attempts before the increment
attemptsExceeded(attempts) == attempts > 5

\* err instanceof Error and err.name === "Throttling": the errors that are
\* not rethrown at once
isThrottling(err) == err.isError /\ err.name = "Throttling"

InitFetch ==
  /\ before = Undefined /\ after = Undefined
  /\ diff = NoDiff
  /\ options = NoOptions
  /\ changeNotes = <<>>
  /\ lines = <<>>
  /\ pc = "start"
  /\ loop = NoLoop
  /\ \E id \in ChangeSetIds :
       fetch = [pc |-> "called", changeSetId |-> id, attempts |-> 0, sends |-> 0,
                sleeps |-> 0, slept |-> 0, response |-> [Changes |-> Undefined],
                error |-> NoError, result |-> Undefined]

\* the branch of a file: the file is read and parsed, its Changes returned
ReadFile ==
  /\ fetch.pc = "called" /\ startsWith(fetch.changeSetId, "file://")
  /\ \E changeSet \in Responses :
       fetch' = [fetch EXCEPT !.pc = "returned", !.result = ChangesOf(changeSet)]
  /\ UNCHANGED <<before, after, diff, options, changeNotes, lines, pc, loop>>

\* let response; let attempts = 0; and the first test of the while loop
EnterLoop ==
  /\ fetch.pc = "called" /\ ~startsWith(fetch.changeSetId, "file://")
  /\ fetch' = [fetch EXCEPT !.pc = "send"]
  /\ UNCHANGED <<before, after, diff, options, changeNotes, lines, pc, loop>>

\* cfn.send resolves: the loop ends and the Changes of the response are returned
SendResolves ==
  /\ fetch.pc = "send"
  /\ \E response \in Responses :
       fetch' = [fetch EXCEPT !.pc = "returned", !.sends = @ + 1,
                              !.response = response, !.result = ChangesOf(response)]
  /\ UNCHANGED <<before, after, diff, options, changeNotes, lines, pc, loop>>

\* cfn.send rejects: the catch block rethrows, or counts the attempt and
\* starts the sleep of 2 ** attempts * 1000 + Math.random() * 1000 ms
SendRejects ==
  /\ fetch.pc = "send"
  /\ \E err \in Rejections, jitter \in Jitters :
       fetch' =
         IF ~isThrottling(err)
         THEN [fetch EXCEPT !.pc = "thrown", !.sends = @ + 1, !.error = err]
         ELSE IF attemptsExceeded(fetch.attempts)
         THEN [fetch EXCEPT !.pc = "thrown", !.sends = @ + 1, !.error = err,
                            !.attempts = @ + 1]
         ELSE [fetch EXCEPT !.pc = "sleeping", !.sends = @ + 1, !.error = err,
                            !.attempts = @ + 1, !.sleeps = @ + 1,
                            !.slept = @ + Pow2(fetch.attempts + 1) * 1000 + jitter]
  /\ UNCHANGED <<before, after, diff, options, changeNotes, lines, pc, loop>>

\* the timer of the sleep fires: the loop tests !response and sends again
WakeUp ==
  /\ fetch.pc = "sleeping"
  /\ fetch' = [fetch EXCEPT !.pc = "send"]
  /\ UNCHANGED <<before, after, diff, options, changeNotes, lines, pc, loop>>

NextFetch == ReadFile \/ EnterLoop \/ SendResolves \/ SendRejects \/ WakeUp
\* the API answers every request and every timer fires
SpecFetch == InitFetch /\ [][NextFetch]_vars /\ WF_vars(NextFetch)

(***************************************************************************)
(* Vocabulary of the properties.                                           *)
(***************************************************************************)
\* the Diffs directly under a node
ChildDiffs(node) ==
  IF node.type = "object" THEN [i \in 1..Len(node.properties) |-> node.properties[i][2]]
  ELSE IF node.type = "array" THEN node.items
  ELSE <<>>

\* d and every Diff under it carry the action a (so none is a Replace)
RECURSIVE AllTagged(_, _)
AllTagged(d, a) ==
  /\ d.action = a
  /\ \A i \in 1..Len(ChildDiffs(d.node)) : AllTagged(ChildDiffs(d.node)[i], a)

\* under every Add of the tree all is Add, under every Remove all is Remove
RECURSIVE UniformBelow(_)
UniformBelow(d) ==
  IF d.action = "Replace"
  THEN /\ \A i \in 1..Len(ChildDiffs(d.beforeNode)) : UniformBelow(ChildDiffs(d.beforeNode)[i])
       /\ \A i \in 1..Len(ChildDiffs(d.afterNode)) : UniformBelow(ChildDiffs(d.afterNode)[i])
  ELSE /\ d.action \in {"Add", "Remove"} => AllTagged(d, d.action)
       /\ \A i \in 1..Len(ChildDiffs(d.node)) : UniformBelow(ChildDiffs(d.node)[i])

\* the same tree with the action a at every position
RECURSIVE Retag(_, _)
Retag(d, a) ==
  Change(a,
    IF d.node.type = "object"
    THEN ObjectNode([i \in 1..Len(d.node.properties) |->
                       <<d.node.properties[i][1], Retag(d.node.properties[i][2], a)>>])
    ELSE IF d.node.type = "array"
    THEN ArrayNode([i \in 1..Len(d.node.items) |-> Retag(d.node.items[i], a)])
    ELSE d.node)

\* a line without the marks of its chalk styles
RECURSIVE Unstyled(_)
Unstyled(line) ==
  IF Len(line) > 0 /\ SubSeq(line, 1, 1) = "<"
  THEN LET k == CHOOSE i \in 1..Len(line) :
                  /\ SubSeq(line, i, i) = ">"
                  /\ \A j \in 1..(i - 1) : SubSeq(line, j, j) # ">"
       IN  Unstyled(SubSeq(line, k + 1, Len(line) - (k + 1)))
  ELSE line

\* the icon a line starts with
IconOf(line) == SubSeq(Unstyled(line), 1, 1)

\* the icon of an action in the current call: "+" for Add, "-" for Remove and
\* " " for Default, unless the call's iconOverride replaces every icon
ExpectedIcon(action) ==
  IF options.iconOverride # "undefined" THEN options.iconOverride
  ELSE IF action = "Add" THEN "+"
  ELSE IF action = "Remove" THEN "-"
  ELSE " "

Built == pc # "start"
Rendered == pc \in {"rendered", "rendered again"}
PlainOptions == ~options.showColor /\ options.iconOverride = "undefined"

(***************************************************************************)
(* The properties.                                                         *)
(***************************************************************************)
\* C1: for every value v, buildDiff(v, v) is a tree of Default Diffs only,
\* hasChanges of it is false, and rendering it without the unchanged
\* properties gives no line.
C1_IdempotenceOfDefault ==
  (Built /\ before = after) =>
     /\ AllTagged(diff, "Default")
     /\ ~hasChanges(diff)
     /\ (Rendered /\ ~options.showUnchangedProperties) => lines = <<>>

C1_Witness ==
  /\ Rendered /\ before = after /\ ~options.showUnchangedProperties
  /\ before.t = "array" /\ Len(before.items) = 2 /\ before.items[1].t = "object"
  /\ Len(diff.node.items) = 2 /\ lines = <<>>

\* C2, as amended: for all values v1 and v2, neither of them null or
\* undefined, whose classified types differ, buildDiff(v1, v2) is a Replace.
C2_TypeChangeIsReplace ==
  (Built /\ ~IsNullish(before) /\ ~IsNullish(after)
     /\ getValueType(before) # getValueType(after)) => diff.action = "Replace"

C2_Witness ==
  /\ pc = "built" /\ before.t = "object" /\ after.t = "array"
  /\ diff.action = "Replace"
  /\ diff.beforeNode.type = "object" /\ diff.afterNode.type = "array"

\* C2, as claimed: for all v1 and v2 whose classified types differ, null and
\* undefined being primitives, buildDiff(v1, v2) is a Replace.
C2_AsClaimed ==
  (Built /\ getValueType(before) # getValueType(after)) => diff.action = "Replace"

\* C3: in a tree of buildDiff every Diff under an Add is an Add and every Diff
\* under a Remove is a Remove; when before is null or undefined and after is
\* not, the tree is an Add throughout and every rendered line carries the
\* icon of Add.
C3_UniformAddRemove ==
  Built =>
     /\ UniformBelow(diff)
     /\ (IsNullish(before) /\ ~IsNullish(after)) =>
          /\ AllTagged(diff, "Add")
          /\ Rendered =>
               /\ Len(lines) >= 1
               /\ \A i \in 1..Len(lines) : IconOf(lines[i]) = ExpectedIcon("Add")

C3_Witness ==
  /\ Rendered /\ before = Null /\ after.t = "object" /\ PlainOptions
  /\ Len(lines) >= 3
  /\ \A i \in 1..Len(lines) : IconOf(lines[i]) = "+"

\* C4: for every v that is not null or undefined, buildDiff(v, undefined) is
\* Remove at every position, buildDiff(undefined, v) is Add at every position,
\* and the two trees have the same shape and the same node content.
C4_AddRemoveSymmetry ==
  (Built /\ ~IsNullish(before) /\ after = Undefined) =>
     /\ AllTagged(diff, "Remove")
     /\ AllTagged(buildDiff(Undefined, before), "Add")
     /\ Retag(diff, "Add") = buildDiff(Undefined, before)

C4_Witness ==
  /\ pc = "built" /\ after = Undefined /\ before.t = "array"
  /\ Len(before.items) >= 1 /\ before.items[1].t = "object"
  /\ diff.action = "Remove" /\ Len(diff.node.items) = Len(before.items)

\* C5, as claimed: for two objects buildDiff returns a Default object node
\* whose properties are the union of the keys, the keys of before in their
\* order and then the keys only after has; a key only in after is an Add, a
\* key only in before a Remove, a key in both the buildDiff of its two values.
C5_ObjectDiffAsClaimed ==
  (Built /\ before.t = "object" /\ after.t = "object") =>
     /\ diff.action = "Default"
     /\ diff.node.type = "object"
     /\ ObjectKeys(diff.node.properties)
          = ObjectKeys(before.props)
              \o SelectSeq(ObjectKeys(after.props), LAMBDA k : ~HasKey(before.props, k))
     /\ \A i \in 1..Len(diff.node.properties) :
          LET k == diff.node.properties[i][1]
              d == diff.node.properties[i][2]
          IN  IF ~HasKey(before.props, k) THEN d.action = "Add"
              ELSE IF ~HasKey(after.props, k) THEN d.action = "Remove"
              ELSE d = buildDiff(GetProp(before.props, k), GetProp(after.props, k))

\* what the call would return for before alone (against undefined) and for
\* after alone: a Remove tree and an Add tree, rendered
RemovedAlone == getObjectDiff(before, Undefined, options, changeNotes)
AddedAlone == getObjectDiff(Undefined, after, options, changeNotes)

Icons(ls) == [i \in 1..Len(ls) |-> IconOf(ls[i])]

ReplacedAtRoot == diff.action = "Replace"
\* the value of the only key of before is replaced by the value it has in after
ReplacedAtOnlyKey ==
  /\ before.t = "object" /\ after.t = "object"
  /\ Len(before.props) = 1 /\ ObjectKeys(before.props) = ObjectKeys(after.props)
  /\ Len(diff.node.properties) = 1
  /\ diff.node.properties[1][2].action = "Replace"
\* a Replace that is the root or the only item of an array that is
RECURSIVE ReplacedInArrays(_)
ReplacedInArrays(d) ==
  \/ d.action = "Replace"
  \/ /\ d.action = "Default" /\ d.node.type = "array" /\ Len(d.node.items) = 1
     /\ ReplacedInArrays(d.node.items[1])

\* C6: a Replace is rendered as all the lines of its before side, each with the
\* icon of Remove, and then all the lines of its after side, each with the
\* icon of Add, under the same key and path: at the root and under a key the
\* lines are those of before alone and then those of after alone; "before"
\* against "after" gives `- "before"` and `+ "after"`, and {hello: "world"}
\* against {hello: "moon"} gives `- hello: "world"` and `+ hello: "moon"`.
C6_ReplaceRendersRemoveThenAdd ==
  Rendered =>
     /\ (ReplacedAtRoot \/ ReplacedAtOnlyKey) => lines = RemovedAlone \o AddedAlone
     /\ ReplacedInArrays(diff) =>
          /\ Len(RemovedAlone) >= 1 /\ Len(AddedAlone) >= 1
          /\ Icons(lines) = [i \in 1..Len(RemovedAlone) |-> ExpectedIcon("Remove")]
                              \o [i \in 1..Len(AddedAlone) |-> ExpectedIcon("Add")]
     /\ (<<before, after>> = SimpleDiff /\ PlainOptions) =>
          lines = <<"- \"before\"", "+ \"after\"">>
     /\ (<<before, after>> = SimpleObject /\ PlainOptions) =>
          lines = <<"- hello: \"world\"", "+ hello: \"moon\"">>

C6_Witness ==
  /\ Rendered /\ ReplacedAtOnlyKey /\ PlainOptions
  /\ before.props[1][2].t = "array" /\ after.props[1][2].t = "object"
  /\ Len(RemovedAlone) = 2 /\ Len(AddedAlone) = 2
  /\ Icons(lines) = <<"-", "-", "+", "+">>

\* the diff of the reordered array and its rendering
ReorderedCall ==
  Rendered /\ <<before, after>> = Reordered /\ options.showUnchangedProperties
    /\ PlainOptions /\ changeNotes = <<>>
CountIcon(icon) == Cardinality({i \in 1..Len(lines) : IconOf(lines[i]) = icon})
ReorderedLayout ==
  /\ lines = <<"+ - \"charlie\"", "  - \"alice\"", "  - \"bob\"",
               "- - \"charlie\"", "  - \"david\"">>
  /\ \A i \in 1..Len(diff.node.items) : diff.node.items[i].action # "Replace"
  /\ CountIcon("+") = 1 /\ CountIcon("-") = 1

\* C7, as amended: for ["alice","bob","charlie","david"] against
\* ["charlie","alice","bob","david"] with the unchanged shown, charlie is an Add
\* before alice and bob (unchanged) and the charlie of the old position a
\* Remove before david (unchanged): 3 unchanged lines, one Add line, one
\* Remove line and no Replace pair.
C7_ReorderedArray ==
  ReorderedCall => (ReorderedLayout /\ CountIcon(" ") = 3)

C7_Witness ==
  /\ ReorderedCall /\ Len(lines) = 5
  /\ [i \in 1..Len(diff.node.items) |-> diff.node.items[i].action]
       = <<"Add", "Default", "Default", "Remove", "Default">>

\* C7, as claimed: the same with 4 unchanged lines.
C7_AsClaimed ==
  ReorderedCall => (ReorderedLayout /\ CountIcon(" ") = 4)

\* the JSON value a node of one action stands for
RECURSIVE NodeValue(_)
NodeValue(node) ==
  IF node.type = "object"
  THEN Obj([i \in 1..Len(node.properties) |->
              <<node.properties[i][1], NodeValue(node.properties[i][2].node)>>])
  ELSE IF node.type = "array"
  THEN Arr([i \in 1..Len(node.items) |-> NodeValue(node.items[i].node)])
  ELSE node.value

\* C8: elements of different classified types never match, so for
\* ["string",42,{obj:"value"}] against [{converted:"object"},[1,2,3],"string"]
\* the items are Add({converted}), Add([1,2,3]), Default("string"), Remove(42),
\* Remove({obj}), in that order, with no Replace.
C8_TypeTransformation ==
  /\ getValueType(before) # getValueType(after) => ~matchArrayElement(before, after)
  /\ (before.t = "array" /\ after.t = "array") =>
       \A i \in 1..Len(before.items), j \in 1..Len(after.items) :
          getValueType(before.items[i]) # getValueType(after.items[j])
            => ~matchArrayElement(before.items[i], after.items[j])
  /\ (Built /\ <<before, after>> = TypeTransformed) =>
       /\ [i \in 1..Len(diff.node.items) |-> diff.node.items[i].action]
            = <<"Add", "Add", "Default", "Remove", "Remove">>
       /\ [i \in 1..Len(diff.node.items) |-> NodeValue(diff.node.items[i].node)]
            = <<after.items[1], after.items[2], after.items[3],
                before.items[2], before.items[3]>>
       /\ \A i \in 1..Len(diff.node.items) : AllTagged(diff.node.items[i], diff.node.items[i].action)

C8_Witness ==
  /\ pc = "built" /\ <<before, after>> = TypeTransformed
  /\ Len(diff.node.items) = 5 /\ diff.node.items[3].action = "Default"
  /\ diff.node.items[3].node.value = Str("string")

\* equality of JSON values: objects as maps from key to value whatever the
\* order of the keys (a property that is undefined counts as absent), arrays
\* element by element
RECURSIVE DeepEqual(_, _)
DeepEqual(x, y) ==
  IF x.t # y.t THEN FALSE
  ELSE IF x.t = "array"
  THEN /\ Len(x.items) = Len(y.items)
       /\ \A i \in 1..Len(x.items) : DeepEqual(x.items[i], y.items[i])
  ELSE IF x.t = "object"
  THEN LET Defined(props) == {props[i][1] : i \in {j \in 1..Len(props) :
                                                     props[j][2].t # "undefined"}}
       IN  /\ Defined(x.props) = Defined(y.props)
           /\ \A k \in Defined(x.props) : DeepEqual(GetProp(x.props, k), GetProp(y.props, k))
  ELSE x = y

KeySet(v) == {v.props[i][1] : i \in 1..Len(v.props)}

\* the cases in which two values match, as the claim lists them
RECURSIVE ClaimedMatch(_, _)
ClaimedMatch(x, y) ==
  \/ DeepEqual(x, y)
  \/ /\ x.t = "object" /\ y.t = "object"
     /\ \/ KeySet(x) \cup KeySet(y) = {}
        \/ 2 * Cardinality(KeySet(x) \cap KeySet(y)) >= Cardinality(KeySet(x) \cup KeySet(y))
  \/ /\ x.t = "array" /\ y.t = "array"
     /\ \/ Len(x.items) = 0 /\ Len(y.items) = 0
        \/ 2 * Cardinality({i \in 1..Min(Len(x.items), Len(y.items)) :
                              ClaimedMatch(x.items[i], y.items[i])})
             >= Max(Len(x.items), Len(y.items))

\* the values the calls compare: before and after and, for two arrays, their
\* elements
Compared ==
  {<<before, after>>}
    \cup (IF before.t = "array" /\ after.t = "array"
          THEN {<<before.items[i], after.items[j]>> :
                  i \in 1..Len(before.items), j \in 1..Len(after.items)}
          ELSE {})

\* C9: matchArrayElement(x, y) is true exactly when x and y are deep-equal, or
\* both are objects and the union of their keys is empty or at least half of
\* it is in both, or both are arrays and both are empty or at least half of
\* max(len x, len y) index-aligned pairs match; so it is false for unequal
\* primitives and for values of different types, and a ratio of exactly 0.5 is
\* a match.
C9_MatchingRule ==
  \A p \in Compared :
     /\ matchArrayElement(p[1], p[2]) = ClaimedMatch(p[1], p[2])
     /\ getValueType(p[1]) # getValueType(p[2]) => ~matchArrayElement(p[1], p[2])
     /\ (getValueType(p[1]) = "primitive" /\ getValueType(p[2]) = "primitive"
           /\ p[1] # p[2]) => ~matchArrayElement(p[1], p[2])
     /\ (p[1].t = "object" /\ p[2].t = "object"
           /\ 2 * Cardinality(KeySet(p[1]) \cap KeySet(p[2]))
                = Cardinality(KeySet(p[1]) \cup KeySet(p[2])))
          => matchArrayElement(p[1], p[2])
     /\ (p[1].t = "array" /\ p[2].t = "array"
           /\ 2 * Cardinality({i \in 1..Min(Len(p[1].items), Len(p[2].items)) :
                                 matchArrayElement(p[1].items[i], p[2].items[i])})
                = Max(Len(p[1].items), Len(p[2].items)))
          => matchArrayElement(p[1], p[2])

\* two objects that are not equal, with exactly half of the keys in both
C9_Witness ==
  /\ pc = "built" /\ before.t = "array" /\ after.t = "array"
  /\ Len(before.items) = 1 /\ Len(after.items) = 1
  /\ before.items[1].t = "object" /\ after.items[1].t = "object"
  /\ Cardinality(KeySet(before.items[1]) \cap KeySet(after.items[1])) = 1
  /\ Cardinality(KeySet(before.items[1]) \cup KeySet(after.items[1])) = 2
  /\ matchArrayElement(before.items[1], after.items[1])
  /\ diff.node.items[1].action = "Default" /\ hasChanges(diff)

\* C10: without the unchanged properties getDiffLines returns no line for a
\* Diff exactly when the Diff and all under it are Default, which is when
\* hasChanges is false; a Replace and a Diff whose own action is not Default
\* have changes and give at least one line.
C10_PruningOfUnchanged ==
  Built =>
     /\ hasChanges(diff) = ~AllTagged(diff, "Default")
     /\ diff.action # "Default" => hasChanges(diff)
     /\ (Rendered /\ ~options.showUnchangedProperties) =>
          /\ (lines = <<>>) = AllTagged(diff, "Default")
          /\ diff.action # "Default" => Len(lines) >= 1
     /\ diff.action = "Default" =>
          \A i \in 1..Len(ChildDiffs(diff.node)) :
             LET c == ChildDiffs(diff.node)[i]
                 hidden == [logOptions(options) EXCEPT !.showUnchangedProperties = FALSE]
                 ls == getDiffLines(c, hidden, changeNotes, "k", "- ", "k")
             IN  /\ hasChanges(c) = ~AllTagged(c, "Default")
                 /\ (ls = <<>>) = ~hasChanges(c)
                 /\ c.action # "Default" => (hasChanges(c) /\ Len(ls) >= 1)

\* an unchanged property pruned next to a changed one
C10_Witness ==
  /\ Rendered /\ ~options.showUnchangedProperties /\ PlainOptions
  /\ before.t = "object" /\ after.t = "object" /\ Len(diff.node.properties) = 2
  /\ ~hasChanges(diff.node.properties[1][2])
  /\ diff.node.properties[2][2].action = "Replace"
  /\ Len(lines) = 2

\* every Replace of a tree
RECURSIVE Replaces(_)
Replaces(d) ==
  IF d.action = "Replace" THEN {d}
  ELSE UNION {Replaces(ChildDiffs(d.node)[i]) : i \in 1..Len(ChildDiffs(d.node))}

\* a line without its icon and the space after it
Body(line) == SubSeq(Unstyled(line), 3, Len(Unstyled(line)))

EndsWith(s, tail) ==
  Len(s) >= Len(tail) /\ SubSeq(s, Len(s) - Len(tail) + 1, Len(s)) = tail

\* the array prefixes and keys getDiffLines is called with for an element of
\* an array: the element itself has no key, the first property of an element
\* that is an object has one
ArrayPrefixes == {"- ", "- - "}
ElementKeys == {"", "a"}

\* the content of the first line of a node under a key: the line it has
\* without indentation and without array prefix
Content(action, node, key) ==
  Body(getDiffLines(Change(action, node), logOptions(options), changeNotes, key, "", "1")[1])

\* getDiffLines of a Replace r in an array context: whether the lines of the
\* Remove side come first, as getDiffLines renders a Remove in that context,
\* and what is in front of the content on the first line of the Remove side
\* and on the first line of the Add side (spaces and array markers)
ReplaceLayout(r, key, arrayPrefix) ==
  LET ls == getDiffLines(r, logOptions(options), changeNotes, key, arrayPrefix, "1")
      rem == getDiffLines(Change("Remove", r.beforeNode), logOptions(options),
                          changeNotes, key, arrayPrefix, "1")
      removed == Content("Remove", r.beforeNode, key)
      added == Content("Add", r.afterNode, key)
      first == Body(ls[1])
      firstAdded == Body(ls[Len(rem) + 1])
  IN  [removeFirst |->
         /\ Len(rem) >= 1 /\ Len(ls) > Len(rem)
         /\ SubSeq(ls, 1, Len(rem)) = rem
         /\ EndsWith(first, removed)
         /\ EndsWith(firstAdded, added)
         /\ \A i \in 1..Len(rem) : IconOf(ls[i]) = ExpectedIcon("Remove")
         /\ \A i \in (Len(rem) + 1)..Len(ls) : IconOf(ls[i]) = ExpectedIcon("Add"),
       removeLead |-> SubSeq(first, 1, Len(first) - Len(removed)),
       addLead |-> SubSeq(firstAdded, 1, Len(firstAdded) - Len(added))]

SameType(r) == r.beforeNode.type = r.afterNode.type

\* C11, as amended: when getDiffLines renders a Replace with a non-empty
\* arrayPrefix, a non-empty key and two nodes of the same type, the array
\* marker is emitted once, on the Remove side, and the Add side carries no
\* marker and is indented so that its content is under the Remove side's
\* content; when the key is empty (the Replace is itself the element of the
\* array) the Add side carries one array marker of its own, its content again
\* under the Remove side's content.
C11_MarkerOnceUnderKey ==
  pc = "rendered" =>
    \A r \in Replaces(diff), p \in ArrayPrefixes :
       SameType(r) =>
         LET keyed == ReplaceLayout(r, "a", p)
             element == ReplaceLayout(r, "", p)
         IN  /\ keyed.removeFirst /\ keyed.removeLead = p
             /\ keyed.addLead = Spaces(Len(p))
             /\ element.removeFirst /\ element.removeLead = p
             /\ element.addLead = Spaces(Len(p) - 2) \o "- "

\* the first property of the only element of an array is replaced by a value
\* of the same type
C11_Witness ==
  /\ Rendered /\ PlainOptions /\ changeNotes = <<>>
  /\ before.t = "array" /\ after.t = "array" /\ Len(diff.node.items) = 1
  /\ diff.node.items[1].action = "Default"
  /\ diff.node.items[1].node.type = "object"
  /\ Len(diff.node.items[1].node.properties) = 2
  /\ diff.node.items[1].node.properties[1][2].action = "Replace"
  /\ SameType(diff.node.items[1].node.properties[1][2])
  /\ SubSeq(lines, 1, 2) = <<"- - a: \"x\"", "+   a: 1">>

\* C11, as claimed: whenever the arrayPrefix is not empty and the two nodes
\* have the same type, the Add side carries no array marker and is indented
\* by the length of the prefix.
C11_AsClaimed ==
  pc = "rendered" =>
    \A r \in Replaces(diff), p \in ArrayPrefixes, k \in ElementKeys :
       SameType(r) =>
         LET layout == ReplaceLayout(r, k, p)
         IN  /\ layout.removeFirst /\ layout.removeLead = p
             /\ layout.addLead = Spaces(Len(p))

\* C12: when getDiffLines renders a Replace with a non-empty arrayPrefix and
\* two nodes of different types, the first line of the Remove side and the
\* first line of the Add side each carry an array marker of their own, and
\* the content of both sides starts at the same column.
C12_MarkerOnBothSides ==
  pc = "rendered" =>
    \A r \in Replaces(diff), p \in ArrayPrefixes, k \in ElementKeys :
       ~SameType(r) =>
         LET layout == ReplaceLayout(r, k, p)
         IN  /\ layout.removeFirst /\ layout.removeLead = p
             /\ EndsWith(layout.removeLead, "- ")
             /\ layout.addLead = Spaces(Len(p) - 2) \o "- "
             /\ Len(layout.addLead) = Len(layout.removeLead)

\* the only element of an array is replaced by a value of another type
C12_Witness ==
  /\ Rendered /\ PlainOptions /\ changeNotes = <<>>
  /\ before.t = "array" /\ after.t = "array" /\ Len(diff.node.items) = 1
  /\ diff.node.items[1].action = "Replace" /\ ~SameType(diff.node.items[1])
  /\ lines = <<"- - \"x\"", "+ - {}">>

\* the nodes of a tree that are an object without properties or an array
\* without items, each as the Diff getDiffLines renders (a side of a Replace
\* as a Remove or an Add)
RECURSIVE EmptyContainers(_)
EmptyContainers(d) ==
  IF d.action = "Replace"
  THEN EmptyContainers(Change("Remove", d.beforeNode))
         \cup EmptyContainers(Change("Add", d.afterNode))
  ELSE (IF d.node.type # "primitive" /\ Len(ChildDiffs(d.node)) = 0 THEN {d} ELSE {})
         \cup UNION {EmptyContainers(ChildDiffs(d.node)[i]) :
                       i \in 1..Len(ChildDiffs(d.node))}

Literal(node) == IF node.type = "object" THEN "{}" ELSE "[]"

\* the indentations and array prefixes an empty container is rendered with
Indents == {0, 2}
NodePrefixes == {""} \cup ArrayPrefixes

\* C13: an empty object node or empty array node that is rendered (not pruned
\* as unchanged) gives exactly one line, `<indent><arrayPrefix><key: >{}` or
\* `<indent><arrayPrefix><key: >[]` (followed by the note of its path, when
\* there is one), with the icon of its action and no header line; {} against
\* {} with the unchanged shown gives `  {}`, [{}] against [{}] gives `  - {}`,
\* and "hello" against [] gives `- "hello"` then `+ []`.
C13_EmptyContainers ==
  Rendered =>
    /\ \A e \in EmptyContainers(diff), k \in ElementKeys, p \in NodePrefixes, n \in Indents :
         LET opts == [logOptions(options) EXCEPT !.indent = n]
             ls == getDiffLines(e, opts, changeNotes, k, p, "1")
         IN  IF ~options.showUnchangedProperties /\ e.action = "Default"
             THEN ls = <<>>
             ELSE /\ Len(ls) = 1
                  /\ IconOf(ls[1]) = ExpectedIcon(e.action)
                  /\ ls[1] = formatDiffString(
                       Spaces(n) \o p \o (IF k = "" THEN "" ELSE k \o ": ")
                         \o Literal(e.node)
                         \o (IF HasKey(changeNotes, "1")
                             THEN " # " \o GetProp(changeNotes, "1") ELSE ""),
                       e.action, opts)
    /\ (PlainOptions /\ changeNotes = <<>>) =>
         /\ (before = ObjOf(<<>>) /\ after = ObjOf(<<>>) /\ options.showUnchangedProperties)
              => lines = <<"  {}">>
         /\ (before = Arr(<<ObjOf(<<>>)>>) /\ after = before
               /\ options.showUnchangedProperties) => lines = <<"  - {}">>
         /\ <<before, after>> = EmptyReplaced => lines = <<"- \"hello\"", "+ []">>

C13_Witness ==
  /\ Rendered /\ PlainOptions /\ changeNotes = <<>> /\ options.showUnchangedProperties
  /\ before = Arr(<<ObjOf(<<>>)>>) /\ after = before
  /\ EmptyContainers(diff) = {diff.node.items[1]}
  /\ lines = <<"  - {}">>

\* a line without the marks of its chalk styles, those at its end included
RECURSIVE Plain(_)
Plain(line) ==
  LET l == Unstyled(line)
  IN  IF Len(l) > 0 /\ SubSeq(l, Len(l), Len(l)) = ">"
      THEN LET k == CHOOSE i \in 1..Len(l) :
                      /\ SubSeq(l, i, i + 1) = "</"
                      /\ \A j \in (i + 1)..Len(l) : SubSeq(l, j, j) # "<"
           IN  Plain(SubSeq(l, 1, k - 1))
      ELSE l

\* for every line getDiffLines returns, the path of the node the line is the
\* primary line of: the value line of a primitive, the line of an empty
\* container, the header line of a container under a key (a container without
\* key has no line of its own)
RECURSIVE PrimaryPaths(_, _, _, _)
RECURSIVE ChildPaths(_, _, _, _)
ChildPaths(node, i, showUnchanged, currentPath) ==
  IF i > Len(ChildDiffs(node)) THEN <<>>
  ELSE PrimaryPaths(ChildDiffs(node)[i], showUnchanged,
                    IF node.type = "object" THEN node.properties[i][1] ELSE "",
                    Join(currentPath, IF node.type = "object" THEN node.properties[i][1]
                                      ELSE ToString(i)))
       \o ChildPaths(node, i + 1, showUnchanged, currentPath)
PrimaryPaths(d, showUnchanged, key, currentPath) ==
  IF ~showUnchanged /\ ~hasChanges(d) THEN <<>>
  ELSE IF d.action = "Replace"
  THEN PrimaryPaths(Change("Remove", d.beforeNode), showUnchanged, key, currentPath)
         \o PrimaryPaths(Change("Add", d.afterNode), showUnchanged, key, currentPath)
  ELSE IF d.node.type = "primitive" \/ Len(ChildDiffs(d.node)) = 0 THEN <<currentPath>>
  ELSE (IF key # "" THEN <<currentPath>> ELSE <<>>)
         \o ChildPaths(d.node, 1, showUnchanged, currentPath)

\* the lines of the same call without any note
LinesWithoutNotes == getDiffLines(diff, logOptions(options), <<>>, "", "", "")
PathsOfLines == PrimaryPaths(diff, options.showUnchangedProperties, "", "")

\* C14, as claimed: a note whose path is the path of a rendered node is
\* appended as ` # <note>` to the primary line of that node and to no other
\* line, and a path that is not in the notes map appends nothing: every line
\* is the line of the call without notes, followed by the note of its node's
\* path when the map holds that path, and holds no ` # ` when it does not.
C14_NotesAsClaimed ==
  Rendered =>
    /\ Len(lines) = Len(LinesWithoutNotes)
    /\ Len(lines) = Len(PathsOfLines)
    /\ \A i \in 1..Len(lines) :
         Plain(lines[i])
           = Plain(LinesWithoutNotes[i])
               \o (IF HasKey(changeNotes, PathsOfLines[i])
                   THEN " # " \o GetProp(changeNotes, PathsOfLines[i]) ELSE "")
    /\ \A i \in 1..Len(lines) :
         ~HasKey(changeNotes, PathsOfLines[i]) => ~Includes(Plain(lines[i]), " # ")

\* the same for the nodes whose path is not the name of a property that every
\* object inherits (which is where the code departs from C14)
C14_NotesOfOwnPaths ==
  Rendered =>
    /\ Len(lines) = Len(LinesWithoutNotes)
    /\ Len(lines) = Len(PathsOfLines)
    /\ \A i \in 1..Len(lines) :
         PathsOfLines[i] \notin InheritedKeys =>
           /\ Plain(lines[i])
                = Plain(LinesWithoutNotes[i])
                    \o (IF HasKey(changeNotes, PathsOfLines[i])
                        THEN " # " \o GetProp(changeNotes, PathsOfLines[i]) ELSE "")
           /\ ~HasKey(changeNotes, PathsOfLines[i]) => ~Includes(Plain(lines[i]), " # ")

\* a header line: the line `key:` of a container that has children, which a
\* note may follow
IsHeader(line) == EndsWith(Plain(line), ":") \/ Includes(Plain(line), ": # ")
ValueLines(ls) == {i \in 1..Len(ls) : ~IsHeader(ls[i])}

RECURSIVE Sum(_)
Sum(ns) == IF Len(ns) = 0 THEN 0 ELSE ns[1] + Sum(Tail(ns))

\* the number of leaf values of a JSON value: its primitives, null included
RECURSIVE LeafValues(_)
LeafValues(v) ==
  IF v.t = "array" THEN Sum([i \in 1..Len(v.items) |-> LeafValues(v.items[i])])
  ELSE IF v.t = "object" THEN Sum([i \in 1..Len(v.props) |-> LeafValues(v.props[i][2])])
  ELSE IF v.t = "undefined" THEN 0
  ELSE 1

\* the number of leaf nodes of a Diff tree: the primitive nodes and the empty
\* containers, those of both nodes of a Replace
RECURSIVE LeafNodes(_)
LeafNodes(d) ==
  IF d.action = "Replace"
  THEN LeafNodes(Change("Remove", d.beforeNode)) + LeafNodes(Change("Add", d.afterNode))
  ELSE IF d.node.type = "primitive" \/ Len(ChildDiffs(d.node)) = 0 THEN 1
  ELSE Sum([i \in 1..Len(ChildDiffs(d.node)) |-> LeafNodes(ChildDiffs(d.node)[i])])

\* the number of primitive nodes of a Diff tree that are unchanged
RECURSIVE UnchangedLeaves(_)
UnchangedLeaves(d) ==
  IF d.action = "Replace" THEN 0
  ELSE IF d.node.type = "primitive" THEN (IF d.action = "Default" THEN 1 ELSE 0)
  ELSE Sum([i \in 1..Len(ChildDiffs(d.node)) |-> UnchangedLeaves(ChildDiffs(d.node)[i])])

WithUnchanged == Rendered /\ options.showUnchangedProperties

\* C15, as amended: for any two values rendered with the unchanged shown, the
\* number of lines that are not header lines is the number of leaf nodes of
\* the Diff tree, which are its primitive nodes and its empty containers, a
\* Replace counting the leaves of its before node and of its after node; for
\* the arrays of objects with nested arrays and type changes these are 15
\* lines, the leaf values of before and after with the unchanged counted once.
C15_LeafNodeCount ==
  WithUnchanged =>
    /\ Cardinality(ValueLines(lines)) = LeafNodes(diff)
    /\ <<before, after>> = NestedTypeChanges =>
         /\ Cardinality(ValueLines(lines)) = 15
         /\ LeafValues(before) + LeafValues(after) - UnchangedLeaves(diff) = 15

C15_Witness ==
  /\ WithUnchanged /\ PlainOptions /\ changeNotes = <<>>
  /\ <<before, after>> = NestedTypeChanges
  /\ Len(lines) = 22 /\ Cardinality(ValueLines(lines)) = 15
  /\ SubSeq(lines, 8, 13) = <<"-     settings:", "-       - \"setting1\"",
                              "+     settings:", "+       mode: \"advanced\"",
                              "- - id: 2", "+   id: 3">>

\* the same counts when an empty container is a leaf as well
RECURSIVE LeafValuesOrEmpty(_)
LeafValuesOrEmpty(v) ==
  IF v.t = "array" /\ Len(v.items) > 0
  THEN Sum([i \in 1..Len(v.items) |-> LeafValuesOrEmpty(v.items[i])])
  ELSE IF v.t = "object" /\ Len(v.props) > 0
  THEN Sum([i \in 1..Len(v.props) |-> LeafValuesOrEmpty(v.props[i][2])])
  ELSE IF v.t = "undefined" THEN 0
  ELSE 1
RECURSIVE UnchangedLeavesOrEmpty(_)
UnchangedLeavesOrEmpty(d) ==
  IF d.action = "Replace" THEN 0
  ELSE IF d.node.type = "primitive" \/ Len(ChildDiffs(d.node)) = 0
  THEN (IF d.action = "Default" THEN 1 ELSE 0)
  ELSE Sum([i \in 1..Len(ChildDiffs(d.node)) |->
              UnchangedLeavesOrEmpty(ChildDiffs(d.node)[i])])

\* C15, as claimed: for any two objects rendered with the unchanged shown, the
\* number of lines that are not header lines is the number of leaf values of
\* before plus that of after, a leaf that is unchanged counted once; the leaf
\* values are the primitives, or the primitives and the empty containers.
C15_AsClaimed ==
  (WithUnchanged /\ before.t = "object" /\ after.t = "object") =>
    \/ Cardinality(ValueLines(lines))
         = LeafValues(before) + LeafValues(after) - UnchangedLeaves(diff)
    \/ Cardinality(ValueLines(lines))
         = LeafValuesOrEmpty(before) + LeafValuesOrEmpty(after)
             - UnchangedLeavesOrEmpty(diff)

RECURSIVE ItemReplaces(_)
ItemReplaces(d) ==
  IF d.action = "Replace" THEN {}
  ELSE UNION {(IF d.node.type = "array" /\ ChildDiffs(d.node)[i].action = "Replace"
               THEN {ChildDiffs(d.node)[i]} ELSE {})
                \cup ItemReplaces(ChildDiffs(d.node)[i]) : i \in 1..Len(ChildDiffs(d.node))}
KeyedReplaces(d) == Replaces(d) \ ItemReplaces(d)

\* the two shapes of a Replace the claim lists
DiffersInTypeOrValue(r) ==
  \/ r.beforeNode.type # r.afterNode.type
  \/ /\ r.beforeNode.type = "primitive" /\ r.afterNode.type = "primitive"
     /\ r.beforeNode.value # r.afterNode.value

\* C17, as amended: in every tree of buildDiff a Replace that is the root or
\* the value of a key has two nodes that differ in type or are two primitives
\* with different values; a Replace that is an item of an array has such two
\* nodes or pairs two objects or two arrays that do not match
\* (matchArrayElement), which buildArrayDiff replaces as a whole.
C17_ReplaceShapes ==
  Built =>
    /\ \A r \in KeyedReplaces(diff) : DiffersInTypeOrValue(r)
    /\ \A r \in ItemReplaces(diff) :
         \/ DiffersInTypeOrValue(r)
         \/ /\ r.beforeNode.type = r.afterNode.type
            /\ r.beforeNode.type \in {"object", "array"}
            /\ ~matchArrayElement(NodeValue(r.beforeNode), NodeValue(r.afterNode))

\* two objects without a common key, each the only element of its array
C17_Witness ==
  /\ pc = "built" /\ before.t = "array" /\ after.t = "array"
  /\ Len(before.items) = 1 /\ Len(after.items) = 1
  /\ diff.node.items[1].action = "Replace"
  /\ diff.node.items[1].beforeNode.type = "object"
  /\ diff.node.items[1].afterNode.type = "object"
  /\ diff.node.items[1] \in ItemReplaces(diff)

\* C17, as claimed: every Replace of a tree has two nodes that differ in type
\* or are two primitives with different values, so none pairs two objects or
\* two arrays.
C17_AsClaimed ==
  Built => \A r \in Replaces(diff) : DiffersInTypeOrValue(r)

\* a call threw: an error is where a node of the tree would be
RECURSIVE Threw(_)
Threw(d) ==
  IF d.action = "Replace"
  THEN Threw(Change("Remove", d.beforeNode)) \/ Threw(Change("Add", d.afterNode))
  ELSE \/ d.action = "Thrown"
       \/ d.node.type = "thrown"
       \/ \E i \in 1..Len(ChildDiffs(d.node)) : Threw(ChildDiffs(d.node)[i])

UndefinedKeys ==
  {k \in KeySet(before) \cup KeySet(after) :
     /\ HasKey(before.props, k) => GetProp(before.props, k) = Undefined
     /\ HasKey(after.props, k) => GetProp(after.props, k) = Undefined}

\* the lines of a property of the root object: not indented, the key first
LinesOfKey(k) ==
  {i \in 1..Len(lines) : SubSeq(Body(lines[i]), 1, Len(k) + 1) = k \o ":"}

\* C19, as claimed: a property whose value is undefined or absent never
\* appears in the diff: for a key whose value is undefined on each side where
\* the key occurs, the properties of the object node have no entry and the
\* rendering has no line.
C19_UndefinedAsClaimed ==
  (Built /\ before.t = "object" /\ after.t = "object") =>
    \A k \in UndefinedKeys :
       /\ ~HasKey(diff.node.properties, k)
       /\ Rendered => LinesOfKey(k) = {}

\* the equality the procedure emits Default for: of the JSON texts, or of the
\* values whatever the order of the keys
SameElement(byText, x, y) ==
  IF byText THEN Stringify(x) = Stringify(y) ELSE DeepEqual(x, y)

\* the greedy procedure of two cursors, as the claim words it, with the
\* matching rule of C9: the items emitted from the cursors (i, j) on
RECURSIVE Greedy(_, _, _, _, _)
Greedy(byText, b, a, i, j) ==
  IF i > Len(b) /\ j > Len(a) THEN <<>>
  ELSE
    LET x == At(b, i)
        y == At(a, j)
        laterInAfter == \E k \in (j + 1)..Len(a) : ClaimedMatch(x, a[k])
        laterInBefore == \E k \in (i + 1)..Len(b) : ClaimedMatch(b[k], y)
    IN
    IF ClaimedMatch(x, y)
    THEN <<IF SameElement(byText, x, y)
           THEN Change("Default", createNodeFromValue(y, "undefined"))
           ELSE IF x.t = "object" THEN buildObjectDiff(x, y)
           ELSE Change("Default", ArrayNode(Greedy(byText, x.items, y.items, 1, 1)))>>
           \o Greedy(byText, b, a, i + 1, j + 1)
    ELSE IF laterInAfter \/ i > Len(b)
    THEN <<Change("Add", createNodeFromValue(y, "Add"))>> \o Greedy(byText, b, a, i, j + 1)
    ELSE IF laterInBefore \/ j > Len(a)
    THEN <<Change("Remove", createNodeFromValue(x, "Remove"))>>
           \o Greedy(byText, b, a, i + 1, j)
    ELSE <<Replace(createNodeFromValue(x, "Remove"), createNodeFromValue(y, "Add"))>>
           \o Greedy(byText, b, a, i + 1, j + 1)

BothArrays == Built /\ before.t = "array" /\ after.t = "array"

\* two objects at the first cursors that match and are not equal
UnequalObjectsFirst ==
  /\ BothArrays
  /\ Len(before.items) > 0 /\ Len(after.items) > 0
  /\ before.items[1].t = "object" /\ after.items[1].t = "object"
  /\ ClaimedMatch(before.items[1], after.items[1])
  /\ ~DeepEqual(before.items[1], after.items[1])

\* C20: for two arrays buildArrayDiff returns a Default array node whose items
\* are the output of the greedy procedure of two cursors: a matching pair
\* gives Default when the JSON texts of the two are equal and the recursive
\* object or array diff otherwise, both cursors advancing; else Add or Remove
\* by the look ahead, one cursor advancing; else Replace, both advancing. Two
\* matching objects that are not equal are diffed property by property in
\* place, never emitted as a whole-element Add, Remove or Replace.
C20_GreedyProcedure ==
  /\ BothArrays =>
       diff = Change("Default", ArrayNode(Greedy(TRUE, before.items, after.items, 1, 1)))
  /\ UnequalObjectsFirst =>
       /\ diff.node.items[1] = buildObjectDiff(before.items[1], after.items[1])
       /\ diff.node.items[1].action = "Default"
       /\ diff.node.items[1].node.type = "object"
       /\ hasChanges(diff.node.items[1])

\* two matching objects diffed in place at the first cursors, one property of
\* them changed, and an element added after them by the look ahead
C20_Witness ==
  /\ UnequalObjectsFirst
  /\ Len(diff.node.items) = 2
  /\ diff.node.items[1].action = "Default"
  /\ \E i \in 1..Len(diff.node.items[1].node.properties) :
        diff.node.items[1].node.properties[i][2].action = "Replace"
  /\ diff.node.items[2].action = "Add"

\* C20, as claimed: the matching pair gives Default when the two are
\* deep-equal, the order of the keys of an object left aside.
C20_GreedyAsClaimed ==
  BothArrays =>
    diff = Change("Default", ArrayNode(Greedy(FALSE, before.items, after.items, 1, 1)))

\* the cursors a loop over two arrays can stand at
CursorsOf(b, a) ==
  {c \in (1..(Len(b) + 1)) \X (1..(Len(a) + 1)) : c[1] <= Len(b) \/ c[2] <= Len(a)}

\* the conditions of the claim at the cursors (i, j)
AddCondition(b, a, i, j) ==
  (\E k \in (j + 1)..Len(a) : ClaimedMatch(At(b, i), a[k])) \/ i > Len(b)
RemoveCondition(b, a, i, j) ==
  (\E k \in (i + 1)..Len(b) : ClaimedMatch(b[k], At(a, j))) \/ j > Len(a)

\* C21: at cursors whose elements do not match, the test for Add is made
\* first: if before[i] matches a later element of after, or before is
\* exhausted, Add(after[j]) is emitted and only j advances, whatever after[j]
\* matches in the rest of before; Remove(before[i]), only i advancing, is
\* emitted exactly when that fails and after[j] matches a later element of
\* before or after is exhausted. The look ahead uses the matching rule, and no
\* Add is emitted past the end of after, no Remove past the end of before.
C21_AddBeforeRemove ==
  BothArrays =>
    \A c \in CursorsOf(before.items, after.items) :
       LET b == before.items
           a == after.items
           i == c[1]
           j == c[2]
           emitted == arrayLoop(b, a, i, j, <<>>)
       IN  ~ClaimedMatch(At(b, i), At(a, j)) =>
             /\ Len(emitted) > 0
             /\ AddCondition(b, a, i, j) =>
                  /\ j <= Len(a)
                  /\ emitted = <<Change("Add", createNodeFromValue(a[j], "Add"))>>
                                 \o arrayLoop(b, a, i, j + 1, <<>>)
             /\ (~AddCondition(b, a, i, j) /\ RemoveCondition(b, a, i, j)) =>
                  /\ i <= Len(b)
                  /\ emitted = <<Change("Remove", createNodeFromValue(b[i], "Remove"))>>
                                 \o arrayLoop(b, a, i + 1, j, <<>>)
             /\ emitted[1].action = "Remove" =>
                  ~AddCondition(b, a, i, j) /\ RemoveCondition(b, a, i, j)
             /\ emitted[1].action = "Add" => AddCondition(b, a, i, j)

\* both conditions hold at the first cursors and the Add is emitted; the
\* element of before matches the later element of after without being equal
\* to it
C21_Witness ==
  /\ BothArrays
  /\ Len(before.items) = 2 /\ Len(after.items) = 2
  /\ ~ClaimedMatch(before.items[1], after.items[1])
  /\ ClaimedMatch(before.items[1], after.items[2])
  /\ ~DeepEqual(before.items[1], after.items[2])
  /\ ClaimedMatch(before.items[2], after.items[1])
  /\ diff.node.items[1].action = "Add"
  /\ diff.node.items[1].node = createNodeFromValue(after.items[1], "Add")

\* the root is an array node and its lines are rendered
RootArrayRendered ==
  Rendered /\ diff.action # "Replace" /\ diff.node.type = "array"

\* the lines of item k of the root array: the root has no key and no prefix,
\* so every item is rendered at indent 0 with the marker "- "
ElementLines(k) ==
  getDiffLines(diff.node.items[k], logOptions(options), changeNotes, "", "- ",
               Join("", ToString(k)))

\* the two columns after the icon of a line
MarkerColumns(line) == SubSeq(Body(line), 1, 2)

\* C22, as claimed: of the lines of a rendered array element exactly one
\* carries the marker of the element, the first one, and every later line has
\* indentation in its place, whether the unchanged properties are shown or not.
C22_OneMarkerAsClaimed ==
  RootArrayRendered =>
    \A k \in 1..Len(diff.node.items) :
       ElementLines(k) # <<>> =>
         /\ MarkerColumns(ElementLines(k)[1]) = "- "
         /\ \A n \in 2..Len(ElementLines(k)) : MarkerColumns(ElementLines(k)[n]) = "  "

\* the element of FirstPropertyUnchanged rendered without its unchanged
\* property: no line carries the marker
C22_MarkerLost ==
  /\ RootArrayRendered
  /\ <<before, after>> = FirstPropertyUnchanged
  /\ ~options.showUnchangedProperties /\ PlainOptions /\ changeNotes = <<>>
  /\ lines = <<"-   b: 1", "+   b: 2">>

\* where the content of a line starts and where its markers stand, read off
\* the line: from column p on, spaces are skipped, "- " is a marker
RECURSIVE Measure(_, _, _)
Measure(body, p, markers) ==
  IF p + 2 <= Len(body) /\ SubSeq(body, p + 1, p + 2) = "- "
  THEN Measure(body, p + 2, markers \cup {p})
  ELSE IF p < Len(body) /\ SubSeq(body, p + 1, p + 1) = " "
  THEN Measure(body, p + 1, markers)
  ELSE [content |-> p, markers |-> markers]
Measured(line) == Measure(Body(line), 0, {})

\* the layout the claim describes, in columns: a node starts at column col
\* with marks markers ahead of its content, so its content starts at
\* col + 2 * marks. The items of an array have their markers at one column,
\* the keys of an object start at one column, the children of a keyed
\* container start 2 columns right of the key, the two sides of a Replace
\* have the same content column.
RECURSIVE Layout(_, _, _, _, _)
RECURSIVE LayoutOfChildren(_, _, _, _, _, _)
\* the children of a container from child i on: the first at column col
\* under marks markers, the later ones under their own markers alone (own is
\* 1 for an item, 0 for a property), at the column that keeps them aligned
LayoutOfChildren(children, i, show, own, col, marks) ==
  IF i > Len(children) THEN <<>>
  ELSE Layout(children[i][2], show, children[i][1], col, marks)
       \o LayoutOfChildren(children, i + 1, show, own, col + 2 * (marks - own), own)
Layout(d, show, key, col, marks) ==
  LET content == col + 2 * marks
      line == [content |-> content, markers |-> {col + 2 * t : t \in 0..(marks - 1)}]
  IN
  IF ~show /\ ~hasChanges(d) THEN <<>>
  ELSE IF d.action = "Replace"
  THEN Layout(Change("Remove", d.beforeNode), show, key, col, marks)
       \o Layout(Change("Add", d.afterNode), show, key, col, marks)
  ELSE IF d.node.type = "primitive" THEN <<line>>
  ELSE IF d.node.type = "object"
  THEN IF Len(d.node.properties) = 0 THEN <<line>>
       ELSE IF key # ""
       THEN <<line>> \o LayoutOfChildren(d.node.properties, 1, show, 0, content + 2, 0)
       ELSE LayoutOfChildren(d.node.properties, 1, show, 0, col, marks)
  ELSE LET items == [i \in 1..Len(d.node.items) |-> <<"", d.node.items[i]>>]
       IN  IF Len(items) = 0 THEN <<line>>
           ELSE IF key # ""
           THEN <<line>> \o LayoutOfChildren(items, 1, show, 1, content + 2, 1)
           ELSE LayoutOfChildren(items, 1, show, 1, col, marks + 1)

\* C23: in every rendering the children of one container start at the same
\* column: the markers of the items of an array stand at one column, the keys
\* of an object start at one column (after the marker for the first key of an
\* array element, under indentation of the same width for the others), the
\* children of a keyed container start 2 columns right of the key, and the
\* added side of a Replace starts at the content column of its removed side;
\* also under prefixes of two markers and more.
C23_ColumnsAligned ==
  pc = "rendered" =>
    LET layout == Layout(diff, options.showUnchangedProperties, "", 0, 0)
    IN  /\ Len(lines) = Len(layout)
        /\ \A i \in 1..Len(lines) :
              /\ Measured(lines[i]).content = layout[i].content
              /\ Measured(lines[i]).markers \subseteq layout[i].markers

\* a rendering with a line under two markers, a line of a later property
\* under indentation alone and a Replace in the tree
C23_Witness ==
  /\ pc = "rendered"
  /\ Replaces(diff) # {}
  /\ \E i \in 1..Len(lines) : Cardinality(Measured(lines[i]).markers) >= 2
  /\ \E i \in 1..Len(lines) :
        Measured(lines[i]).markers = {} /\ Measured(lines[i]).content >= 4

\* a JSON value: no property and no element of it is undefined
RECURSIVE IsJson(_)
IsJson(v) ==
  IF v.t = "array" THEN \A i \in 1..Len(v.items) : IsJson(v.items[i])
  ELSE IF v.t = "object" THEN \A i \in 1..Len(v.props) : IsJson(v.props[i][2])
  ELSE v.t \in {"null", "string", "number", "boolean"}

\* equality of two JSON values, null and undefined alike at the top
JsonEqual(x, y) == (IsNullish(x) /\ IsNullish(y)) \/ DeepEqual(x, y)

\* the calls of buildDiff with JSON values, or undefined for an absent one
JsonCall ==
  /\ Built
  /\ before = Undefined \/ IsJson(before)
  /\ after = Undefined \/ IsJson(after)

\* how many of the first n items of an array node stand for an element of the
\* before array (the items that are not Add) and of the after array (the
\* items that are not Remove)
BeforeCount(items, n) == Cardinality({m \in 1..n : items[m].action # "Add"})
AfterCount(items, n) == Cardinality({m \in 1..n : items[m].action # "Remove"})

\* every Default leaf of the tree d holds the value that stands at its
\* position in x and in y, x and y being the before and after values d was
\* built from
RECURSIVE DefaultLeavesAgree(_, _, _)
DefaultLeavesAgree(d, x, y) ==
  IF d.action # "Default" THEN TRUE
  ELSE IF d.node.type = "primitive"
  THEN JsonEqual(x, y) /\ JsonEqual(d.node.value, y)
  ELSE IF d.node.type = "object"
  THEN /\ x.t = "object" /\ y.t = "object"
       /\ \A i \in 1..Len(d.node.properties) :
             DefaultLeavesAgree(d.node.properties[i][2],
                                PropertyOf(x, d.node.properties[i][1]),
                                PropertyOf(y, d.node.properties[i][1]))
  ELSE /\ x.t = "array" /\ y.t = "array"
       /\ \A n \in 1..Len(d.node.items) :
             d.node.items[n].action = "Default" =>
               /\ BeforeCount(d.node.items, n) <= Len(x.items)
               /\ AfterCount(d.node.items, n) <= Len(y.items)
               /\ DefaultLeavesAgree(d.node.items[n],
                                     x.items[BeforeCount(d.node.items, n)],
                                     y.items[AfterCount(d.node.items, n)])

C24_WitnessOfChange ==
  /\ JsonCall
  /\ before.t = "array" /\ after.t = "array"
  /\ Len(before.items) < Len(after.items)
  /\ hasChanges(diff)
  /\ \E n \in 2..Len(diff.node.items) :
        diff.node.items[n].action = "Default" /\ diff.node.items[1].action = "Add"

\* the value on one side of a tree ("before" or "after"): the before side
\* leaves out what was added, the after side what was removed
RECURSIVE SideOf(_, _)
OnSide(d, side) ==
  d.action = "Replace" \/ d.action = "Default"
    \/ d.action = (IF side = "before" THEN "Remove" ELSE "Add")
SideOf(d, side) ==
  IF d.action = "Replace"
  THEN NodeValue(IF side = "before" THEN d.beforeNode ELSE d.afterNode)
  ELSE IF d.node.type = "object"
  THEN LET kept == SelectSeq(d.node.properties, LAMBDA e : OnSide(e[2], side))
       IN  Obj([i \in 1..Len(kept) |-> <<kept[i][1], SideOf(kept[i][2], side)>>])
  ELSE IF d.node.type = "array"
  THEN LET kept == SelectSeq(d.node.items, LAMBDA e : OnSide(e, side))
       IN  Arr([i \in 1..Len(kept) |-> SideOf(kept[i], side)])
  ELSE d.node.value

\* the items of the root array that stand for an element of one side
ItemsOnSide(side) == SelectSeq(diff.node.items, LAMBDA e : OnSide(e, side))

\* C25: for two arrays the items of buildArrayDiff lose and duplicate nothing:
\* the items that are not Add, in order, are the elements of before one to
\* one (a Remove, a Default, the before side of a Replace or of a recursive
\* diff), and the items that are not Remove are the elements of after.
C25_NothingLost ==
  BothArrays =>
    /\ Len(ItemsOnSide("before")) = Len(before.items)
    /\ Len(ItemsOnSide("after")) = Len(after.items)
    /\ \A k \in 1..Len(before.items) :
          DeepEqual(SideOf(ItemsOnSide("before")[k], "before"), before.items[k])
    /\ \A k \in 1..Len(after.items) :
          DeepEqual(SideOf(ItemsOnSide("after")[k], "after"), after.items[k])

\* items of every kind in one array: an Add, a Remove, a Default and a
\* recursive diff with a change inside
C25_Witness ==
  /\ BothArrays
  /\ \E n \in 1..Len(diff.node.items) : diff.node.items[n].action = "Add"
  /\ \E n \in 1..Len(diff.node.items) : diff.node.items[n].action = "Remove"
  /\ \E n \in 1..Len(diff.node.items) :
        diff.node.items[n].action = "Default" /\ hasChanges(diff.node.items[n])
  /\ Len(diff.node.items) > Len(before.items)

\* C26: buildArrayDiff terminates for two finite arrays: every iteration of
\* its loop advances one cursor at least and pushes exactly one item, the
\* branch of a match included, so the items are at least
\* max(len(before), len(after)) and at most len(before) + len(after).
C26_Terminates ==
  /\ <>(pc = "built")
  /\ [][pc' = "loop" =>
          /\ Len(loop'.items) = Len(loop.items) + 1
          /\ loop'.beforeIndex \in {loop.beforeIndex, loop.beforeIndex + 1}
          /\ loop'.afterIndex \in {loop.afterIndex, loop.afterIndex + 1}
          /\ loop'.beforeIndex + loop'.afterIndex > loop.beforeIndex + loop.afterIndex]_vars
  /\ [](pc = "built" =>
          /\ diff = buildArrayDiff(before, after)
          /\ Len(diff.node.items) >= Max(Len(before.items), Len(after.items))
          /\ Len(diff.node.items) <= Len(before.items) + Len(after.items))

\* a loop that has returned more items than the longer array has elements and
\* fewer than both arrays together, after an iteration of every branch
C26_Witness ==
  /\ pc = "built" /\ loop.items = diff.node.items
  /\ Len(diff.node.items) > Max(Len(before.items), Len(after.items))
  /\ Len(diff.node.items) < Len(before.items) + Len(after.items)
  /\ \A a \in {"Add", "Remove", "Default"} :
        \E n \in 1..Len(diff.node.items) : diff.node.items[n].action = a

\* after is a permutation of before and the elements are pairwise distinct
\* primitives
PermutationOfDistinct ==
  /\ BothArrays
  /\ Len(before.items) = Len(after.items)
  /\ \A i \in 1..Len(before.items) : getValueType(before.items[i]) = "primitive"
  /\ \A i, j \in 1..Len(before.items) : i # j => before.items[i] # before.items[j]
  /\ {before.items[i] : i \in 1..Len(before.items)}
       = {after.items[i] : i \in 1..Len(after.items)}

\* the positions of the items of one action that hold the value e
ItemsOf(action, e) ==
  {n \in 1..Len(diff.node.items) :
     /\ diff.node.items[n].action = action
     /\ diff.node.items[n].node = PrimitiveNode(e)}

\* C27: when after is a permutation of before and the elements are pairwise
\* distinct primitives, no item is a Replace: every element is exactly one
\* Default item, or exactly one Add item and exactly one Remove item, so there
\* are as many Add items as Remove items.
C27_PermutationWithoutReplace ==
  PermutationOfDistinct =>
    /\ \A n \in 1..Len(diff.node.items) : diff.node.items[n].action # "Replace"
    /\ \A i \in 1..Len(before.items) :
          LET e == before.items[i]
              defaults == Cardinality(ItemsOf("Default", e))
              adds == Cardinality(ItemsOf("Add", e))
              removes == Cardinality(ItemsOf("Remove", e))
          IN  \/ defaults = 1 /\ adds = 0 /\ removes = 0
              \/ defaults = 0 /\ adds = 1 /\ removes = 1
    /\ Cardinality({n \in 1..Len(diff.node.items) : diff.node.items[n].action = "Add"})
         = Cardinality({n \in 1..Len(diff.node.items) : diff.node.items[n].action = "Remove"})

\* four elements in another order: two of them added and removed, the others
\* unchanged
C27_Witness ==
  /\ PermutationOfDistinct
  /\ Len(before.items) = 4
  /\ Cardinality({n \in 1..Len(diff.node.items) : diff.node.items[n].action = "Add"}) = 2
  /\ Cardinality({n \in 1..Len(diff.node.items) : diff.node.items[n].action = "Default"}) = 2

\* s is a subsequence of t: t with some of its elements left out
RECURSIVE IsSubsequence(_, _)
IsSubsequence(s, t) ==
  IF Len(s) = 0 THEN TRUE
  ELSE IF Len(t) < Len(s) THEN FALSE
  ELSE IF s[1] = t[1] THEN IsSubsequence(Tail(s), Tail(t))
  ELSE IsSubsequence(s, Tail(t))

\* the lines of the tree of the state with the unchanged properties pruned or
\* shown, the other inputs being those of the state
LinesWhenShown(show) ==
  getDiffLines(diff, logOptions([options EXCEPT !.showUnchangedProperties = show]),
               changeNotes, "", "", "")

\* C28: the lines getDiffLines returns without the unchanged properties are a
\* subsequence of the lines it returns with them, all other inputs equal: the
\* pruning takes whole lines away and leaves the icon, the indentation, the
\* marker and the text of every other line as they are.
C28_PrunedIsSubsequence ==
  Rendered =>
    /\ lines = LinesWhenShown(options.showUnchangedProperties)
    /\ IsSubsequence(LinesWhenShown(FALSE), LinesWhenShown(TRUE))

\* a tree rendered both ways, one after the other: the pruned lines are fewer,
\* there are some, and the first of the lines shown is not among them
C28_Witness ==
  /\ pc = "rendered again"
  /\ ~options.showUnchangedProperties
  /\ lines # <<>>
  /\ Len(lines) < Len(LinesWhenShown(TRUE))
  /\ lines[1] # LinesWhenShown(TRUE)[1]
  /\ <<before, after>> = FirstPropertyUnchanged

\* the path of a child as the claim builds it: the segments from the root
\* down, joined by "/"
SlashJoined(path, segment) == IF path = "" THEN segment ELSE path \o "/" \o segment

\* the claimed path of the node of every rendered primary line, in the order
\* of the lines: a property under its key, an item under its 1-based position
\* in items
RECURSIVE ClaimedPaths(_, _, _, _)
RECURSIVE ClaimedChildPaths(_, _, _, _)
ClaimedChildPaths(node, i, showUnchanged, currentPath) ==
  IF i > Len(ChildDiffs(node)) THEN <<>>
  ELSE ClaimedPaths(ChildDiffs(node)[i], showUnchanged,
                    IF node.type = "object" THEN node.properties[i][1] ELSE "",
                    SlashJoined(currentPath,
                                IF node.type = "object" THEN node.properties[i][1]
                                ELSE ToString(i)))
       \o ClaimedChildPaths(node, i + 1, showUnchanged, currentPath)
ClaimedPaths(d, showUnchanged, key, currentPath) ==
  IF ~showUnchanged /\ ~hasChanges(d) THEN <<>>
  ELSE IF d.action = "Replace"
  THEN ClaimedPaths(Change("Remove", d.beforeNode), showUnchanged, key, currentPath)
         \o ClaimedPaths(Change("Add", d.afterNode), showUnchanged, key, currentPath)
  ELSE IF d.node.type = "primitive" \/ Len(ChildDiffs(d.node)) = 0 THEN <<currentPath>>
  ELSE (IF key # "" THEN <<currentPath>> ELSE <<>>)
         \o ClaimedChildPaths(d.node, 1, showUnchanged, currentPath)
ClaimedPathsOfLines == ClaimedPaths(diff, options.showUnchangedProperties, "", "")

\* every line carries the note of the claimed path of its node and no other
\* (the paths that name an inherited property, where C14 departs, left aside)
NotesAtClaimedPaths ==
  /\ Len(lines) = Len(ClaimedPathsOfLines)
  /\ Len(lines) = Len(LinesWithoutNotes)
  /\ \A i \in 1..Len(lines) :
       {ClaimedPathsOfLines[i], PathsOfLines[i]} \cap InheritedKeys = {} =>
         Plain(lines[i])
           = Plain(LinesWithoutNotes[i])
               \o (IF HasKey(changeNotes, ClaimedPathsOfLines[i])
                   THEN " # " \o GetProp(changeNotes, ClaimedPathsOfLines[i]) ELSE "")

\* C29, as claimed: the path a note is looked up under is empty for the root,
\* the path of the parent joined by "/" with the key for a property, and the
\* path of the parent joined by "/" with the 1-based position in items for an
\* item of an array.
C29_PathsAsClaimed == Rendered => NotesAtClaimedPaths

\* the same for the calls other than the one whose keys are dot segments
C29_PathsOfPlainKeys ==
  (Rendered /\ <<before, after>> # DotKeys) => NotesAtClaimedPaths

\* the property "." of a takes the note of a
C29_NoteOfParent ==
  /\ Rendered /\ <<before, after>> = DotKeys
  /\ changeNotes # <<>> /\ PlainOptions
  /\ lines[2] = "-   .: \"x\" # WARNING: Requires Replacement!"

FromApi == fetch.pc # "none" /\ ~startsWith(fetch.changeSetId, "file://")

\* C30: fetching from the API, getChangeSetChanges returns the first
\* response; an error that is not an Error named Throttling is rethrown at
\* once, without a retry; a Throttling error is retried after a sleep, and
\* under throttling without end the request is sent 7 times at most, with 6
\* sleeps, before the Throttling error is rethrown: the loop always ends.
C30_RetryLoop ==
  /\ [](FromApi =>
          /\ fetch.sends <= 7 /\ fetch.sleeps <= 6
          /\ fetch.pc = "sleeping" => isThrottling(fetch.error)
          /\ fetch.pc = "returned" =>
               /\ fetch.sends = fetch.sleeps + 1
               /\ fetch.result = ChangesOf(fetch.response)
          /\ fetch.pc = "thrown" =>
               /\ fetch.sends = fetch.sleeps + 1
               /\ isThrottling(fetch.error) => fetch.sends = 7 /\ fetch.sleeps = 6)
  /\ [][/\ fetch.pc \in {"returned", "thrown"} => fetch' = fetch
        /\ fetch'.pc = "sleeping" => fetch'.slept > fetch.slept
        /\ (fetch.pc = "send" /\ fetch'.pc = "thrown" /\ ~isThrottling(fetch'.error)) =>
             fetch'.sleeps = fetch.sleeps /\ fetch'.attempts = fetch.attempts]_vars
  /\ <>(fetch.pc \in {"returned", "thrown"})

\* the Throttling error rethrown after 7 requests and 6 sleeps, the last of
\* them of 64 seconds and more
C30_Witness ==
  /\ FromApi /\ fetch.pc = "thrown" /\ isThrottling(fetch.error)
  /\ fetch.sends = 7 /\ fetch.sleeps = 6 /\ fetch.attempts = 7
  /\ fetch.slept >= 126000

====
